---- MODULE Spec2Model ----
(***************************************************************************)
(* Model of the Schedule A checker (src/caura/scripts/A - Checker.ts):     *)
(* name normalisation, the similarity scorer with its bounded edit         *)
(* distance, and the two-pass (exact, then batched fuzzy) matching loop of *)
(* main.                                                                   *)
(*                                                                         *)
(* Text is a sequence of one-character strings.  Numbers that the script   *)
(* holds as floating point are kept exact: a threshold is a whole number   *)
(* of hundredths and a score is a fraction <<numerator, denominator>>.     *)
(* For string lengths below 200 the script's double arithmetic with the    *)
(* literal 0.85 and the exact arithmetic used here take the same branch at *)
(* every comparison (floor(L * (1 - 0.85)), diff > L * (1 - 0.85),         *)
(* (L - d) / L > 0.85, i / u < 0.6).                                       *)
(***************************************************************************)
EXTENDS Integers, Sequences, FiniteSets, TLC

VARIABLES
    \* ---- main(): the matching run -------------------------------------
    pc,                     \* position of main in its sequence of loops
    rosterValues,           \* data rows of the Roster sheet (header excluded)
    activityValues,         \* Schedule A column of the ActivityReport data rows
    row,                    \* loop variable of the current loop
    eligibleRosterNames,    \* RosterEntry[]
    exactMatchMap,          \* Map<string, number>
    scheduleANames,         \* ActivityEntry[]
    exactMatches,
    fuzzyMatches,
    unmatchedActivityNames, \* filter() result: references into scheduleANames
    unmatchedRosterNames,   \* filter() result: references into eligibleRosterNames
    BATCH_SIZE,
    batchStart,
    batch,                  \* slice of unmatchedActivityNames being processed
    matchLog,               \* the pairs main marked, in order: who was matched with whom
    scored,                 \* per processed fuzzy entry: the candidates it scored
    unmatchedCountLog,      \* the "unmatched Schedule A entries" figure logged
    matchedRosterLog,       \* the "matched roster entries" figure logged
    \* ---- pure functions applied to drawn inputs ------------------------
    fpc,
    arg1,
    arg2,
    arg3,
    threshold,
    out1,
    out2,
    \* ---- the workbook main runs on -------------------------------------
    workbook,                \* what the two sheets look like (never changes)
    calculationMode,         \* Application.getCalculationMode()
    originalCalculationMode,
    headerRowIndex,
    rosterColIndex,
    scheduleAColIndex,
    mutations                \* the changes main made to the workbook, in order

mainVars == <<pc, rosterValues, activityValues, row, eligibleRosterNames,
              exactMatchMap, scheduleANames, exactMatches, fuzzyMatches,
              unmatchedActivityNames, unmatchedRosterNames, BATCH_SIZE,
              batchStart, batch, matchLog, scored, unmatchedCountLog,
              matchedRosterLog>>

funVars == <<fpc, arg1, arg2, arg3, threshold, out1, out2>>

bookVars == <<workbook, calculationMode, originalCalculationMode,
              headerRowIndex, rosterColIndex, scheduleAColIndex, mutations>>

vars == <<mainVars, funVars, bookVars>>

(***************************************************************************)
(* Bounds of the model                                                     *)
(***************************************************************************)
MaxRoster == 2      \* data rows in the Roster sheet
MaxActivity == 2    \* data rows in the ActivityReport sheet
MaxBatch == 2       \* batch sizes 1..MaxBatch are tried
MaxStrLen == 3      \* length of the strings the scorer is applied to
MaxRawLen == 5      \* length of the raw texts the normaliser is applied to

(***************************************************************************)
(* Characters                                                              *)
(***************************************************************************)
Alphabet ==
    <<"a", "b", "c", "d", "e", "f", "g", "h", "i", "j", "k", "l", "m",
      "n", "o", "p", "q", "r", "s", "t", "u", "v", "w", "x", "y", "z">>
Capitals ==
    <<"A", "B", "C", "D", "E", "F", "G", "H", "I", "J", "K", "L", "M",
      "N", "O", "P", "Q", "R", "S", "T", "U", "V", "W", "X", "Y", "Z">>

LowerLetters == {Alphabet[i] : i \in DOMAIN Alphabet}

Whitespace == {" "}

toLowerCase(c) ==
    IF \E i \in DOMAIN Capitals : Capitals[i] = c
    THEN Alphabet[CHOOSE i \in DOMAIN Capitals : Capitals[i] = c]
    ELSE c

Min(a, b) == IF a < b THEN a ELSE b
Max(a, b) == IF a > b THEN a ELSE b
Abs(a) == IF a < 0 THEN -a ELSE a

RECURSIVE Rep(_, _)
Rep(c, n) == IF n = 0 THEN <<>> ELSE <<c>> \o Rep(c, n - 1)

lower(s) == [i \in 1..Len(s) |-> toLowerCase(s[i])]

(***************************************************************************)
(* String.prototype.split("(")[0], trim and global regex replace           *)
(***************************************************************************)
RECURSIVE beforeParen(_)
beforeParen(s) ==
    IF s = <<>> \/ Head(s) = "(" THEN <<>>
    ELSE <<Head(s)>> \o beforeParen(Tail(s))

RECURSIVE trimStart(_)
trimStart(s) ==
    IF s # <<>> /\ Head(s) \in Whitespace THEN trimStart(Tail(s)) ELSE s

RECURSIVE trimEnd(_)
trimEnd(s) ==
    IF s # <<>> /\ s[Len(s)] \in Whitespace
    THEN trimEnd(SubSeq(s, 1, Len(s) - 1)) ELSE s

trim(s) == trimEnd(trimStart(s))

StartsWith(s, pat) == Len(s) >= Len(pat) /\ SubSeq(s, 1, Len(pat)) = pat

\* s.replace(/pat/g, rep) for a literal pattern: leftmost matches, no overlap
RECURSIVE replaceAll(_, _, _)
replaceAll(s, pat, rep) ==
    IF s = <<>> THEN <<>>
    ELSE IF StartsWith(s, pat)
         THEN rep \o replaceAll(SubSeq(s, Len(pat) + 1, Len(s)), pat, rep)
         ELSE <<Head(s)>> \o replaceAll(Tail(s), pat, rep)

\* s.replace(/ -$/g, "")
replaceSpaceHyphenAtEnd(s) ==
    IF Len(s) >= 2 /\ SubSeq(s, Len(s) - 1, Len(s)) = <<" ", "-">>
    THEN SubSeq(s, 1, Len(s) - 2) ELSE s

IsLowerLetter(c) == c \in LowerLetters
IsNotWhitespace(c) == c \notin Whitespace

\* faulty variant: the digits are kept as well
stripToLettersAndDigits(s) ==
    SelectSeq(SelectSeq(s, IsNotWhitespace),
              LAMBDA c : c \in LowerLetters \cup {"0", "1", "2", "3", "4"})

\* .replace(/\s+/g, "").replace(/[^a-z]/g, "")
stripToLetters(s) == SelectSeq(SelectSeq(s, IsNotWhitespace), IsLowerLetter)

(***************************************************************************)
(* cleanName, normalizeName, normalizeActivityName                         *)
(***************************************************************************)
cleanName(name) ==
    LET c0 == trim(beforeParen(name))
        c1 == replaceAll(c0, <<" ", "-", " ">>, <<" ">>)
        c2 == replaceAll(c1, <<"-", " ">>, <<>>)
        c3 == replaceSpaceHyphenAtEnd(c2)
    IN  trim(c3)

normalizeName(firstName, lastName) ==
    stripToLetters(lower(firstName \o lastName))

\* faulty variant: the two trailing replace calls forgotten
normalizeActivityNameNoStrip(name) == lower(trim(beforeParen(name)))

normalizeActivityName(name) ==
    stripToLetters(lower(trim(beforeParen(name))))

\* the normalisation an ActivityReport cell goes through
normalize(text) == normalizeActivityName(cleanName(text))

(***************************************************************************)
(* The similarity scorer                                                   *)
(***************************************************************************)
JaccardPct == 60    \* jaccardScore < 0.6
TauPct == 85        \* the 0.85 main passes and compares with

Zero == <<0, 1>>
One == <<1, 1>>
Less(x, y) == x[1] * y[2] < y[1] * x[2]         \* x < y for fractions
SameScore(x, y) == x[1] * y[2] = y[1] * x[2]    \* x === y for fractions
AboveTau(x, tauPct) == x[1] * 100 > tauPct * x[2]

Chars(s) == {s[i] : i \in 1..Len(s)}

\* <<intersection.length, union.length>>
jaccardSimilarity(str1, str2) ==
    <<Cardinality(Chars(str1) \cap Chars(str2)),
      Cardinality(Chars(str1) \cup Chars(str2))>>

Min3(a, b, c) == Min(a, Min(b, c))

RECURSIVE SeqMin(_)
SeqMin(s) == IF Len(s) = 1 THEN s[1] ELSE Min(s[1], SeqMin(Tail(s)))

\* faulty variant: a deletion costs 2
RECURSIVE fillRowDel2(_, _, _, _, _)
fillRowDel2(prev, curr, c, str2, j) ==
    IF j > Len(str2) THEN curr
    ELSE LET cost == IF c = str2[j] THEN 0 ELSE 1
             v == Min3(prev[j + 1] + 2, curr[j] + 1, prev[j] + cost)
         IN  fillRowDel2(prev, Append(curr, v), c, str2, j + 1)

\* the inner loop over j: curr holds curr[0..j-1] at positions 1..j,
\* prev holds prev[0..n] at positions 1..n+1
RECURSIVE fillRow(_, _, _, _, _)
fillRow(prev, curr, c, str2, j) ==
    IF j > Len(str2) THEN curr
    ELSE LET cost == IF c = str2[j] THEN 0 ELSE 1
             v == Min3(prev[j + 1] + 1, curr[j] + 1, prev[j] + cost)
         IN  fillRow(prev, Append(curr, v), c, str2, j + 1)

\* the outer loop over i, from row i on; minInRow starts at i = curr[0].
\* rowDone is the end of one iteration, once the row curr is filled.
RECURSIVE levRows(_, _, _, _, _)
RECURSIVE rowDone(_, _, _, _, _)
\* faulty variant: the row is given up at >= maxDistance
rowDoneEager(curr, str1, str2, maxDistance, i) ==
    IF SeqMin(curr) >= maxDistance THEN maxDistance + 1
    ELSE levRows(curr, str1, str2, maxDistance, i + 1)

rowDone(curr, str1, str2, maxDistance, i) ==
    IF SeqMin(curr) > maxDistance THEN maxDistance + 1
    ELSE levRows(curr, str1, str2, maxDistance, i + 1)

levRows(prev, str1, str2, maxDistance, i) ==
    IF i > Len(str1) THEN prev[Len(str2) + 1]
    ELSE rowDone(fillRow(prev, <<i>>, str1[i], str2, 1),
                 str1, str2, maxDistance, i)

levenshteinDistanceWithLimit(str1, str2, maxDistance) ==
    levRows([j \in 1..(Len(str2) + 1) |-> j - 1], str1, str2, maxDistance, 1)

\* str[0]: undefined for the empty string
charAt0(s) == IF s = <<>> THEN "undefined" ELSE s[1]

\* faulty variant: the distance itself is divided by the length
scoreOfDistance(distance, maxDistance, maxLength) ==
    IF distance > maxDistance THEN Zero
    ELSE <<distance, maxLength>>

\* the last two lines of calculateOptimizedSimilarity
scoreOf(distance, maxDistance, maxLength) ==
    IF distance > maxDistance THEN Zero
    ELSE <<maxLength - distance, maxLength>>

\* faulty variant: the pre-filter compares with 0.5
jaccardBelowHalf(jaccardScore) ==
    jaccardScore[1] * 100 < 50 * jaccardScore[2]

\* the Jaccard pre-filter: jaccardScore < 0.6
jaccardBelow(jaccardScore) ==
    jaccardScore[1] * 100 < JaccardPct * jaccardScore[2]

\* faulty variant: the length filter compares with maxLength * threshold
calculateOptimizedSimilarityTightLength(str1, str2, tauPct) ==
    LET lengthDiff == Abs(Len(str1) - Len(str2))
        maxLength == Max(Len(str1), Len(str2))
        maxDistance == (maxLength * (100 - tauPct)) \div 100
    IN  IF maxLength = 0 THEN One
        ELSE IF lengthDiff * 100 > maxLength * tauPct THEN Zero
        ELSE IF charAt0(str1) # charAt0(str2) THEN Zero
        ELSE IF jaccardBelow(jaccardSimilarity(str1, str2)) THEN Zero
        ELSE scoreOf(levenshteinDistanceWithLimit(str1, str2, maxDistance),
                     maxDistance, maxLength)

\* faulty variant: the early return for two empty strings is missing
calculateOptimizedSimilarityNoGuard(str1, str2, tauPct) ==
    LET lengthDiff == Abs(Len(str1) - Len(str2))
        maxLength == Max(Len(str1), Len(str2))
        maxDistance == (maxLength * (100 - tauPct)) \div 100
    IN  IF lengthDiff * 100 > maxLength * (100 - tauPct) THEN Zero
        ELSE IF charAt0(str1) # charAt0(str2) THEN Zero
        ELSE IF jaccardBelow(jaccardSimilarity(str1, str2)) THEN Zero
        ELSE scoreOf(levenshteinDistanceWithLimit(str1, str2, maxDistance),
                     maxDistance, maxLength)

calculateOptimizedSimilarity(str1, str2, tauPct) ==
    LET lengthDiff == Abs(Len(str1) - Len(str2))
        maxLength == Max(Len(str1), Len(str2))
        maxDistance == (maxLength * (100 - tauPct)) \div 100
    IN  IF maxLength = 0 THEN One
        ELSE IF lengthDiff * 100 > maxLength * (100 - tauPct) THEN Zero
        ELSE IF charAt0(str1) # charAt0(str2) THEN Zero
        ELSE IF jaccardBelow(jaccardSimilarity(str1, str2)) THEN Zero
        ELSE scoreOf(levenshteinDistanceWithLimit(str1, str2, maxDistance),
                     maxDistance, maxLength)

\* faulty variant: the length pre-filter is missing
returnTakenNoLength(str1, str2, tauPct) ==
    LET maxLength == Max(Len(str1), Len(str2))
        maxDistance == (maxLength * (100 - tauPct)) \div 100
    IN  IF maxLength = 0 THEN "empty"
        ELSE IF charAt0(str1) # charAt0(str2) THEN "firstChar"
        ELSE IF jaccardBelow(jaccardSimilarity(str1, str2)) THEN "jaccard"
        ELSE IF levenshteinDistanceWithLimit(str1, str2, maxDistance) > maxDistance
             THEN "distance"
        ELSE "score"

\* which return statement of calculateOptimizedSimilarity a call leaves by
returnTaken(str1, str2, tauPct) ==
    LET lengthDiff == Abs(Len(str1) - Len(str2))
        maxLength == Max(Len(str1), Len(str2))
        maxDistance == (maxLength * (100 - tauPct)) \div 100
    IN  IF maxLength = 0 THEN "empty"
        ELSE IF lengthDiff * 100 > maxLength * (100 - tauPct) THEN "length"
        ELSE IF charAt0(str1) # charAt0(str2) THEN "firstChar"
        ELSE IF jaccardBelow(jaccardSimilarity(str1, str2)) THEN "jaccard"
        ELSE IF levenshteinDistanceWithLimit(str1, str2, maxDistance) > maxDistance
             THEN "distance"
        ELSE "score"

(***************************************************************************)
(* Inputs of a run: the rows the two sheets can hold                       *)
(***************************************************************************)
Weekly == <<"W", "e", "e", "k", "l", "y">>
ScheduleA == <<"S", "c", "h", "e", "d", "u", "l", "e", " ", "A">>
ScheduleAMonthly == ScheduleA \o <<" ", "M", "o", "n", "t", "h", "l", "y">>
TriWeekly == <<"T", "r", "i">> \o Weekly
Casual == <<"C", "a", "s", "u", "a", "l">>

scheduleATypes == {ScheduleA, ScheduleAMonthly, Weekly, TriWeekly}

Long1 == Rep("a", 10) \o Rep("b", 10)
Long2 == Rep("a", 13) \o Rep("b", 7)

\* Roster rows: the Roster, FirstName and LastName cells
RosterPool ==
    { [roster |-> Weekly, firstName |-> <<"A", "b", "c", "d">>,
       lastName |-> <<"e", "f", "g">>],
      [roster |-> <<" ">> \o ScheduleA, firstName |-> <<"a", "b", "c", "d">>,
       lastName |-> <<"-", " ", "e", "f", "h">>],
      [roster |-> Casual, firstName |-> <<"a", "b", "c", "d">>,
       lastName |-> <<"e", "f", "g">>],
      [roster |-> ScheduleAMonthly, firstName |-> <<"(", "x", ")">>,
       lastName |-> <<"1">>] }

\* ActivityReport rows: the Schedule A cell
ActivityPool ==
    { <<"a", "b", "c", "d", " ", "E", "f", "g", " ", "(", "n", ")">>,
      <<"a", "b", "c", "d", "e", "f", "i">>,
      <<"(", "x", ")">>,
      <<" ">> }

\* Rows with names of 20 letters, three edits apart: a score of exactly 0.85
LongRosterPool ==
    { [roster |-> TriWeekly, firstName |-> Rep("a", 10),
       lastName |-> Rep("b", 10)],
      [roster |-> Weekly, firstName |-> <<"A", "b", "c", "d">>,
       lastName |-> <<"e", "f", "g">>] }

LongActivityPool ==
    { Long2,
      Long1 \o <<"(", "n", ")">>,
      <<"a", "b", "c", "d", "e", "f", "i">> }

\* Rows holding ordinary names of people
JohnRow == [roster |-> Weekly, firstName |-> <<"j", "o", "h", "n">>,
            lastName |-> <<"s", "m", "i", "t", "h">>]
JaneRow == [roster |-> ScheduleA, firstName |-> <<"j", "a", "n", "e">>,
            lastName |-> <<"d", "o", "e">>]
AliceRow == [roster |-> TriWeekly, firstName |-> <<"a", "l", "i", "c", "e">>,
             lastName |-> <<"b", "r", "o", "w", "n">>]
JohnSmithNote == <<"J", "o", "h", "n", " ", "S", "m", "i", "t", "h", " ",
                   "(", "n", "o", "t", "e", ")">>
JaneDow == <<"j", "a", "n", "e", " ", "d", "o", "w">>
BobGreen == <<"b", "o", "b", " ", "g", "r", "e", "e", "n">>

PeopleRosterPool == {JohnRow, JaneRow, AliceRow}
PeopleActivityPool == {JohnSmithNote, JaneDow, BobGreen}

SeqsUpTo(S, n) == UNION {[1..k -> S] : k \in 0..n}

(***************************************************************************)
(* The loop bodies of main, as functions of the data they read and write   *)
(***************************************************************************)
\* if (x): a string is truthy when it is not empty
\* faulty variant: every string passes
alwaysTruthy(s) == TRUE
truthy(s) == s # <<>>

\* Map.prototype.set
\* faulty variant: an existing key keeps its value
mapSetIfAbsent(m, k, v) ==
    [n \in DOMAIN m \cup {k} |-> IF n \in DOMAIN m THEN m[n] ELSE v]
mapSet(m, k, v) == [n \in DOMAIN m \cup {k} |-> IF n = k THEN v ELSE m[n]]

\* faulty variant: the roster type is not looked at
rosterStepAnyType(st, r, values) ==
    LET firstName == cleanName(values[r].firstName)
        lastName == cleanName(values[r].lastName)
        normalizedName == normalizeName(firstName, lastName)
        entryIndex == Len(st.eligible) + 1
    IN  IF truthy(normalizedName)
        THEN [eligible |-> Append(st.eligible,
                  [normalizedName |-> normalizedName, rowIndex |-> r,
                   matched |-> FALSE]),
              map |-> mapSet(st.map, normalizedName, entryIndex)]
        ELSE st

\* body of the loop over rosterValues; st = [eligible, map]
rosterStep(st, r, values) ==
    LET rosterType == trim(values[r].roster)
        firstName == cleanName(values[r].firstName)
        lastName == cleanName(values[r].lastName)
        normalizedName == normalizeName(firstName, lastName)
        entryIndex == Len(st.eligible) + 1
    IN  IF rosterType \in scheduleATypes /\ truthy(normalizedName)
        THEN [eligible |-> Append(st.eligible,
                  [normalizedName |-> normalizedName, rowIndex |-> r,
                   matched |-> FALSE]),
              map |-> mapSet(st.map, normalizedName, entryIndex)]
        ELSE st

\* faulty variant: the inner if (normalizedName) forgotten
activityStepUnchecked(names, r, values) ==
    LET scheduledName == values[r]
        cleanedName == cleanName(scheduledName)
        normalizedName == normalizeActivityName(cleanedName)
    IN  IF truthy(trim(scheduledName))
        THEN Append(names, [normalizedName |-> normalizedName, rowIndex |-> r,
                            matched |-> FALSE])
        ELSE names

\* body of the loop over activityValues
activityStep(names, r, values) ==
    LET scheduledName == values[r]
        cleanedName == cleanName(scheduledName)
        normalizedName == normalizeActivityName(cleanedName)
    IN  IF truthy(trim(scheduledName)) /\ truthy(normalizedName)
        THEN Append(names, [normalizedName |-> normalizedName, rowIndex |-> r,
                            matched |-> FALSE])
        ELSE names

\* faulty variant: the roster entry is not marked
exactStepActivityOnly(st, b, map) ==
    LET name == st.schedule[b].normalizedName
    IN  IF name \in DOMAIN map
        THEN [st EXCEPT !.schedule[b].matched = TRUE,
                        !.exact = @ + 1,
                        !.log = Append(@, [kind |-> "Exact", b |-> b,
                                           a |-> map[name], score |-> One])]
        ELSE st

\* faulty variant: a roster entry already matched is not matched again
exactStepOnce(st, b, map) ==
    LET name == st.schedule[b].normalizedName
    IN  IF name \in DOMAIN map /\ ~st.eligible[map[name]].matched
        THEN [st EXCEPT !.schedule[b].matched = TRUE,
                        !.eligible[map[name]].matched = TRUE,
                        !.exact = @ + 1,
                        !.log = Append(@, [kind |-> "Exact", b |-> b,
                                           a |-> map[name], score |-> One])]
        ELSE st

\* body of the first pass; st = [eligible, schedule, exact, fuzzy, log, scored]
exactStep(st, b, map) ==
    LET name == st.schedule[b].normalizedName
    IN  IF name \in DOMAIN map
        THEN [st EXCEPT !.schedule[b].matched = TRUE,
                        !.eligible[map[name]].matched = TRUE,
                        !.exact = @ + 1,
                        !.log = Append(@, [kind |-> "Exact", b |-> b,
                                           a |-> map[name], score |-> One])]
        ELSE st

\* faulty variant: the predicate lets every entry through
RECURSIVE filterEvery(_, _)
filterEvery(entries, i) ==
    IF i > Len(entries) THEN <<>>
    ELSE <<i>> \o filterEvery(entries, i + 1)

\* Array.prototype.filter((entry) => !entry.matched): the entries kept, by reference
RECURSIVE filterUnmatched(_, _)
filterUnmatched(entries, i) ==
    IF i > Len(entries) THEN <<>>
    ELSE (IF entries[i].matched THEN <<>> ELSE <<i>>)
         \o filterUnmatched(entries, i + 1)

\* faulty variant: >= in the comparison, so a later equal score replaces
RECURSIVE scanRosterLastWins(_, _, _, _, _, _)
scanRosterLastWins(pool, eligible, name, index, bestMatchScore, bestMatchIndex) ==
    IF index > Len(pool)
    THEN [score |-> bestMatchScore, index |-> bestMatchIndex]
    ELSE LET similarity == calculateOptimizedSimilarity(
                 name, eligible[pool[index]].normalizedName, TauPct)
         IN  IF ~Less(similarity, bestMatchScore)
             THEN scanRosterLastWins(pool, eligible, name, index + 1,
                                     similarity, index)
             ELSE scanRosterLastWins(pool, eligible, name, index + 1,
                                     bestMatchScore, bestMatchIndex)

\* faulty variant: bestMatchIndex is not updated with the score
RECURSIVE scanRosterNoIndex(_, _, _, _, _, _)
scanRosterNoIndex(pool, eligible, name, index, bestMatchScore, bestMatchIndex) ==
    IF index > Len(pool)
    THEN [score |-> bestMatchScore, index |-> bestMatchIndex]
    ELSE LET similarity == calculateOptimizedSimilarity(
                 name, eligible[pool[index]].normalizedName, TauPct)
         IN  IF Less(bestMatchScore, similarity)
             THEN scanRosterNoIndex(pool, eligible, name, index + 1,
                                    similarity, bestMatchIndex)
             ELSE scanRosterNoIndex(pool, eligible, name, index + 1,
                                    bestMatchScore, bestMatchIndex)

\* the scan of unmatchedRosterNames for one activity entry
RECURSIVE scanRoster(_, _, _, _, _, _)
scanRoster(pool, eligible, name, index, bestMatchScore, bestMatchIndex) ==
    IF index > Len(pool)
    THEN [score |-> bestMatchScore, index |-> bestMatchIndex]
    ELSE LET similarity == calculateOptimizedSimilarity(
                 name, eligible[pool[index]].normalizedName, TauPct)
         IN  IF Less(bestMatchScore, similarity)
             THEN scanRoster(pool, eligible, name, index + 1, similarity, index)
             ELSE scanRoster(pool, eligible, name, index + 1,
                             bestMatchScore, bestMatchIndex)

\* if (bestMatchScore > 0.85)
\* faulty variant: >= instead of >
acceptsAtThreshold(bestMatchScore) == bestMatchScore[1] * 100 >= TauPct * bestMatchScore[2]
accepts(bestMatchScore) == AboveTau(bestMatchScore, TauPct)

\* eligibleRosterNames.findIndex((entry) => entry.rowIndex === rowIndex)
findIndexByRow(eligible, rowIndex) ==
    LET hits == {i \in 1..Len(eligible) : eligible[i].rowIndex = rowIndex}
    IN  IF hits = {} THEN 0 ELSE CHOOSE i \in hits : \A k \in hits : i <= k

\* the rest of the body of batch.forEach once the scan has produced best
fuzzyMark(st, b, pool, best) ==
    LET hit == accepts(best.score)
        chosen == IF hit THEN pool[best.index] ELSE 0
        originalIndex ==
            IF hit THEN findIndexByRow(st.eligible, st.eligible[chosen].rowIndex)
            ELSE 0
        marked == IF hit
                  THEN [st.eligible EXCEPT ![chosen].matched = TRUE]
                  ELSE st.eligible
        seen == Append(st.scored, [b |-> b, candidates |-> pool,
                                   bestScore |-> best.score, chosen |-> chosen])
    IN  IF hit
        THEN [st EXCEPT !.schedule[b].matched = TRUE,
                        !.eligible = IF originalIndex # 0
                                     THEN [marked EXCEPT ![originalIndex].matched = TRUE]
                                     ELSE marked,
                        !.fuzzy = @ + 1,
                        !.log = Append(@, [kind |-> "Fuzzy", b |-> b,
                                           a |-> chosen, score |-> best.score]),
                        !.scored = seen]
        ELSE [st EXCEPT !.scored = seen]

\* body of batch.forEach; pool = unmatchedRosterNames
fuzzyStep(st, b, pool) ==
    fuzzyMark(st, b, pool,
              scanRoster(pool, st.eligible, st.schedule[b].normalizedName,
                         1, Zero, 0))

\* unmatchedActivityNames.slice(batchStart, batchStart + BATCH_SIZE)
\* faulty variants: the start index is one too small; the end index is taken
\* as inclusive and one too small
sliceOverlap(arr, from, to) == SubSeq(arr, Max(from, 1), Min(to, Len(arr)))
sliceShort(arr, from, to) == SubSeq(arr, from + 1, Min(to - 1, Len(arr)))
slice(arr, from, to) == SubSeq(arr, from + 1, Min(to, Len(arr)))

\* the matching state main holds in its local variables
matchState ==
    [eligible |-> eligibleRosterNames, schedule |-> scheduleANames,
     exact |-> exactMatches, fuzzy |-> fuzzyMatches, log |-> matchLog,
     scored |-> scored]

(***************************************************************************)
(* The workbook: the calculation mode, where the tables sit in the two     *)
(* sheets, and the formatting main applies                                 *)
(***************************************************************************)
CalculationModes == {"automatic", "automaticExceptTables", "manual"}

\* getColumnLetter: the letters as character codes (65 is "A")
RECURSIVE getColumnLetterFrom(_, _)
getColumnLetterFrom(columnNumber, columnLetter) ==
    IF columnNumber > 0
    THEN LET remainder == (columnNumber - 1) % 26
         IN  getColumnLetterFrom((columnNumber - 1) \div 26,
                                 <<65 + remainder>> \o columnLetter)
    ELSE columnLetter

getColumnLetter(columnNumber) == getColumnLetterFrom(columnNumber, <<>>)

\* Array.prototype.findIndex on a header row, for one title
findIndex(headerRow, title) ==
    LET hits == {i \in 1..Len(headerRow) : headerRow[i] = title}
    IN  IF hits = {} THEN -1
        ELSE (CHOOSE i \in hits : \A k \in hits : i <= k) - 1

HeaderSearchRows == 10   \* getRange("A1:Z10")
HeaderWords == {"FirstName", "LastName", "Roster"}

\* the search for the header row in A1:Z10; the rows above workbook.headerRow
\* are blank
findHeaderRowIndex(book) ==
    IF /\ book.headerRow <= HeaderSearchRows
       /\ \E i \in 1..Len(book.rosterHeaderRow) :
              book.rosterHeaderRow[i] \in HeaderWords
    THEN book.headerRow - 1
    ELSE -1

\* A workbook with both tables at the top left corner of their sheets
PlainWorkbook ==
    [rosterSheet |-> TRUE, activitySheet |-> TRUE,
     headerRow |-> 1,
     rosterHeaderRow |-> <<"FirstName", "LastName", "Roster">>,
     usedRange |-> [defined |-> TRUE, row |-> 1, col |-> 1],
     activityHeaderRow |-> <<"Schedule A">>]

MaxHeaderRow == 2    \* the Roster header is in one of rows 1..MaxHeaderRow
MaxOrigin == 2       \* first row and column of the ActivityReport used range

WorkbookPool ==
    {[PlainWorkbook EXCEPT !.headerRow = h, !.usedRange.row = r, !.usedRange.col = c] :
        h \in 1..MaxHeaderRow, r \in 1..MaxOrigin, c \in 1..MaxOrigin}
    \cup
    { [PlainWorkbook EXCEPT !.headerRow = MaxHeaderRow,
                            !.rosterHeaderRow = <<"Roster", "FirstName", "LastName">>,
                            !.activityHeaderRow = <<"Date", "Schedule A">>],
      [PlainWorkbook EXCEPT !.rosterSheet = FALSE],
      [PlainWorkbook EXCEPT !.activitySheet = FALSE],
      [PlainWorkbook EXCEPT !.rosterHeaderRow = <<"Name", "Team">>],
      [PlainWorkbook EXCEPT !.rosterHeaderRow = <<"FirstName", "LastName">>],
      [PlainWorkbook EXCEPT !.usedRange.defined = FALSE],
      [PlainWorkbook EXCEPT !.activityHeaderRow = <<"Date", "Client">>] }

\* Application.setCalculationMode(mode), as an entry of mutations
setCalculationMode(mode) == [op |-> "setCalculationMode", at |-> mode]

\* faulty variant: automatic is written back whatever the mode was
finallyAutomatic(original) == "automatic"

\* the mode the finally block writes back
finallyMode(original) == original

\* Step 4, first loop: the cells filled pink, in order
RECURSIVE pinkFills(_, _, _)
pinkFills(schedule, colIndex, i) ==
    IF i > Len(schedule) THEN <<>>
    ELSE (IF ~schedule[i].matched
          THEN <<[op |-> "fill", at |-> <<"ActivityReport",
                     getColumnLetter(colIndex + 1), schedule[i].rowIndex + 1>>]>>
          ELSE <<>>)
         \o pinkFills(schedule, colIndex, i + 1)

\* Step 4, second loop: the cells whose font is set to red, in order
RECURSIVE redFonts(_, _, _, _)
redFonts(eligible, headerIndex, colIndex, i) ==
    IF i > Len(eligible) THEN <<>>
    ELSE (IF eligible[i].matched
          THEN <<[op |-> "font", at |-> <<"Roster",
                     getColumnLetter(colIndex + 1),
                     headerIndex + 1 + eligible[i].rowIndex>>]>>
          ELSE <<>>)
         \o redFonts(eligible, headerIndex, colIndex, i + 1)

(***************************************************************************)
(* main: one action per loop iteration and per loop exit                   *)
(***************************************************************************)
\* the workbook side of main once the Roster rows have been read
bookAtRoster(book) ==
    /\ workbook = book
    /\ calculationMode = "manual"
    /\ originalCalculationMode = "automatic"
    /\ headerRowIndex = findHeaderRowIndex(book)
    /\ rosterColIndex = findIndex(book.rosterHeaderRow, "Roster")
    /\ scheduleAColIndex = -1
    /\ mutations = <<setCalculationMode("manual")>>

\* main is not running
bookIdle ==
    /\ workbook = PlainWorkbook
    /\ calculationMode = "automatic"
    /\ originalCalculationMode = "automatic"
    /\ headerRowIndex = -1
    /\ rosterColIndex = -1
    /\ scheduleAColIndex = -1
    /\ mutations = <<>>

funIdle ==
    /\ fpc = "idle"
    /\ arg1 = <<>>
    /\ arg2 = <<>>
    /\ threshold = TauPct
    /\ arg3 = 0
    /\ out1 = <<>>
    /\ out2 = <<>>

mainStart ==
    /\ row = 1
    /\ eligibleRosterNames = <<>>
    /\ exactMatchMap = <<>>
    /\ scheduleANames = <<>>
    /\ exactMatches = 0
    /\ fuzzyMatches = 0
    /\ unmatchedActivityNames = <<>>
    /\ unmatchedRosterNames = <<>>
    /\ BATCH_SIZE = 0
    /\ batchStart = 0
    /\ batch = <<>>
    /\ matchLog = <<>>
    /\ scored = <<>>
    /\ unmatchedCountLog = -1
    /\ matchedRosterLog = -1

InitFrom(rosterRows, activityRows) ==
    /\ pc = "roster"
    /\ rosterValues \in SeqsUpTo(rosterRows, MaxRoster)
    /\ activityValues \in SeqsUpTo(activityRows, MaxActivity)
    /\ mainStart
    /\ funIdle
    /\ bookAtRoster(PlainWorkbook)

Init == InitFrom(RosterPool, ActivityPool)

InitLong == InitFrom(LongRosterPool, LongActivityPool)

InitPeople == InitFrom(PeopleRosterPool, PeopleActivityPool)

InitLive == Init \/ InitPeople

ProcessRosterRow ==
    /\ pc = "roster"
    /\ row <= Len(rosterValues)
    /\ \E st \in {rosterStep([eligible |-> eligibleRosterNames,
                                map |-> exactMatchMap], row, rosterValues)} :
           /\ eligibleRosterNames' = st.eligible
           /\ exactMatchMap' = st.map
    /\ row' = row + 1
    /\ UNCHANGED <<pc, rosterValues, activityValues, scheduleANames,
                   exactMatches, fuzzyMatches, unmatchedActivityNames,
                   unmatchedRosterNames, BATCH_SIZE, batchStart, batch,
                   matchLog, scored, unmatchedCountLog, matchedRosterLog>>
    /\ UNCHANGED funVars
    /\ UNCHANGED bookVars

\* the roster loop ends; the ActivityReport used range is read and the
\* Schedule A column found
RosterDone ==
    /\ pc = "roster"
    /\ row > Len(rosterValues)
    /\ workbook.usedRange.defined
    /\ findIndex(workbook.activityHeaderRow, "Schedule A") # -1
    /\ scheduleAColIndex' = findIndex(workbook.activityHeaderRow, "Schedule A")
    /\ pc' = "activity"
    /\ row' = 1
    /\ UNCHANGED <<rosterValues, activityValues, eligibleRosterNames,
                   exactMatchMap, scheduleANames, exactMatches, fuzzyMatches,
                   unmatchedActivityNames, unmatchedRosterNames, BATCH_SIZE,
                   batchStart, batch, matchLog, scored, unmatchedCountLog,
                   matchedRosterLog>>
    /\ UNCHANGED funVars
    /\ UNCHANGED <<workbook, calculationMode, originalCalculationMode,
                   headerRowIndex, rosterColIndex, mutations>>

ProcessActivityRow ==
    /\ pc = "activity"
    /\ row <= Len(activityValues)
    /\ scheduleANames' = activityStep(scheduleANames, row, activityValues)
    /\ row' = row + 1
    /\ UNCHANGED <<pc, rosterValues, activityValues, eligibleRosterNames,
                   exactMatchMap, exactMatches, fuzzyMatches,
                   unmatchedActivityNames, unmatchedRosterNames, BATCH_SIZE,
                   batchStart, batch, matchLog, scored, unmatchedCountLog,
                   matchedRosterLog>>
    /\ UNCHANGED funVars
    /\ UNCHANGED bookVars

ActivityDone ==
    /\ pc = "activity"
    /\ row > Len(activityValues)
    /\ pc' = "exact"
    /\ row' = 1
    /\ UNCHANGED <<rosterValues, activityValues, eligibleRosterNames,
                   exactMatchMap, scheduleANames, exactMatches, fuzzyMatches,
                   unmatchedActivityNames, unmatchedRosterNames, BATCH_SIZE,
                   batchStart, batch, matchLog, scored, unmatchedCountLog,
                   matchedRosterLog>>
    /\ UNCHANGED funVars
    /\ UNCHANGED bookVars

ExactEntry ==
    /\ pc = "exact"
    /\ row <= Len(scheduleANames)
    /\ \E st \in {exactStep(matchState, row, exactMatchMap)} :
           /\ eligibleRosterNames' = st.eligible
           /\ scheduleANames' = st.schedule
           /\ exactMatches' = st.exact
           /\ matchLog' = st.log
    /\ row' = row + 1
    /\ UNCHANGED <<pc, rosterValues, activityValues, exactMatchMap,
                   fuzzyMatches, unmatchedActivityNames, unmatchedRosterNames,
                   BATCH_SIZE, batchStart, batch, scored, unmatchedCountLog,
                   matchedRosterLog>>
    /\ UNCHANGED funVars
    /\ UNCHANGED bookVars

\* the two filter() calls and the declaration of BATCH_SIZE
FilterUnmatched ==
    /\ pc = "exact"
    /\ row > Len(scheduleANames)
    /\ unmatchedActivityNames' = filterUnmatched(scheduleANames, 1)
    /\ unmatchedRosterNames' = filterUnmatched(eligibleRosterNames, 1)
    /\ BATCH_SIZE' \in 1..MaxBatch
    /\ batchStart' = 0
    /\ pc' = "batches"
    /\ UNCHANGED <<rosterValues, activityValues, row, eligibleRosterNames,
                   exactMatchMap, scheduleANames, exactMatches, fuzzyMatches,
                   batch, matchLog, scored, unmatchedCountLog,
                   matchedRosterLog>>
    /\ UNCHANGED funVars
    /\ UNCHANGED bookVars

BatchBegin ==
    /\ pc = "batches"
    /\ batchStart < Len(unmatchedActivityNames)
    /\ batch' = slice(unmatchedActivityNames, batchStart, batchStart + BATCH_SIZE)
    /\ row' = 1
    /\ pc' = "fuzzy"
    /\ UNCHANGED <<rosterValues, activityValues, eligibleRosterNames,
                   exactMatchMap, scheduleANames, exactMatches, fuzzyMatches,
                   unmatchedActivityNames, unmatchedRosterNames, BATCH_SIZE,
                   batchStart, matchLog, scored, unmatchedCountLog,
                   matchedRosterLog>>
    /\ UNCHANGED funVars
    /\ UNCHANGED bookVars

FuzzyEntry ==
    /\ pc = "fuzzy"
    /\ row <= Len(batch)
    /\ \E st \in {fuzzyStep(matchState, batch[row], unmatchedRosterNames)} :
           /\ eligibleRosterNames' = st.eligible
           /\ scheduleANames' = st.schedule
           /\ fuzzyMatches' = st.fuzzy
           /\ matchLog' = st.log
           /\ scored' = st.scored
    /\ row' = row + 1
    /\ UNCHANGED <<pc, rosterValues, activityValues, exactMatchMap,
                   exactMatches, unmatchedActivityNames, unmatchedRosterNames,
                   BATCH_SIZE, batchStart, batch, unmatchedCountLog,
                   matchedRosterLog>>
    /\ UNCHANGED funVars
    /\ UNCHANGED bookVars

BatchEnd ==
    /\ pc = "fuzzy"
    /\ row > Len(batch)
    /\ batchStart' = batchStart + BATCH_SIZE
    /\ pc' = "batches"
    /\ UNCHANGED <<rosterValues, activityValues, row, eligibleRosterNames,
                   exactMatchMap, scheduleANames, exactMatches, fuzzyMatches,
                   unmatchedActivityNames, unmatchedRosterNames, BATCH_SIZE,
                   batch, matchLog, scored, unmatchedCountLog,
                   matchedRosterLog>>
    /\ UNCHANGED funVars
    /\ UNCHANGED bookVars

\* faulty variant: the batch loop is left only once batchStart is past the end
ReportLate ==
    /\ pc = "batches"
    /\ batchStart > Len(unmatchedActivityNames)
    /\ unmatchedCountLog' = Len(scheduleANames) - exactMatches - fuzzyMatches
    /\ matchedRosterLog' = exactMatches + fuzzyMatches
    /\ calculationMode' = finallyMode(originalCalculationMode)
    /\ mutations' = mutations
                      \o pinkFills(scheduleANames, scheduleAColIndex, 1)
                      \o redFonts(eligibleRosterNames, headerRowIndex,
                                  rosterColIndex, 1)
                      \o <<setCalculationMode(finallyMode(originalCalculationMode))>>
    /\ pc' = "done"
    /\ UNCHANGED <<rosterValues, activityValues, row, eligibleRosterNames,
                   exactMatchMap, scheduleANames, exactMatches, fuzzyMatches,
                   unmatchedActivityNames, unmatchedRosterNames, BATCH_SIZE,
                   batchStart, batch, matchLog, scored>>
    /\ UNCHANGED funVars
    /\ UNCHANGED <<workbook, originalCalculationMode, headerRowIndex,
                   rosterColIndex, scheduleAColIndex>>

\* the batch loop ends; the highlighting, the two closing console.log
\* figures, and the finally block
Report ==
    /\ pc = "batches"
    /\ batchStart >= Len(unmatchedActivityNames)
    /\ unmatchedCountLog' = Len(scheduleANames) - exactMatches - fuzzyMatches
    /\ matchedRosterLog' = exactMatches + fuzzyMatches
    /\ calculationMode' = finallyMode(originalCalculationMode)
    /\ mutations' = mutations
                      \o pinkFills(scheduleANames, scheduleAColIndex, 1)
                      \o redFonts(eligibleRosterNames, headerRowIndex,
                                  rosterColIndex, 1)
                      \o <<setCalculationMode(finallyMode(originalCalculationMode))>>
    /\ pc' = "done"
    /\ UNCHANGED <<rosterValues, activityValues, row, eligibleRosterNames,
                   exactMatchMap, scheduleANames, exactMatches, fuzzyMatches,
                   unmatchedActivityNames, unmatchedRosterNames, BATCH_SIZE,
                   batchStart, batch, matchLog, scored>>
    /\ UNCHANGED funVars
    /\ UNCHANGED <<workbook, originalCalculationMode, headerRowIndex,
                   rosterColIndex, scheduleAColIndex>>

Next ==
    \/ ProcessRosterRow
    \/ RosterDone
    \/ ProcessActivityRow
    \/ ActivityDone
    \/ ExactEntry
    \/ FilterUnmatched
    \/ BatchBegin
    \/ FuzzyEntry
    \/ BatchEnd
    \/ Report

Spec == Init /\ [][Next]_vars

\* the same run over both kinds of rows, with the scheduling of a script:
\* as long as a statement of main is left to execute, it is executed
SpecLive == InitLive /\ [][Next]_vars /\ WF_vars(Next)

\* the same run over sheets that hold the 20-letter names
SpecLong == InitLong /\ [][Next]_vars

\* the same run over sheets that hold names of people
SpecPeople == InitPeople /\ [][Next]_vars

(***************************************************************************)
(* main from its first line: the calculation mode is saved and set to      *)
(* manual, the sheets, the header row and the columns are looked up, and   *)
(* every way out of the try block passes through finally                   *)
(***************************************************************************)
BookRosterPool == {r \in RosterPool : r.roster = Weekly}
BookActivityPool ==
    { <<"a", "b", "c", "d", " ", "E", "f", "g", " ", "(", "n", ")">>,
      <<"z", "z">> }

InitWorkbook ==
    /\ pc = "entry"
    /\ rosterValues \in SeqsUpTo(BookRosterPool, MaxRoster)
    /\ activityValues \in SeqsUpTo(BookActivityPool, MaxActivity)
    /\ mainStart
    /\ funIdle
    /\ workbook \in WorkbookPool
    /\ calculationMode \in CalculationModes
    /\ originalCalculationMode = "unset"
    /\ headerRowIndex = -1
    /\ rosterColIndex = -1
    /\ scheduleAColIndex = -1
    /\ mutations = <<>>

\* a way out of the try block before Step 4: the finally block runs, main ends
leaveMain(to) ==
    /\ pc' = to
    /\ calculationMode' = finallyMode(originalCalculationMode)
    /\ mutations' = Append(mutations,
                           setCalculationMode(finallyMode(originalCalculationMode)))
    /\ UNCHANGED <<rosterValues, activityValues, row, eligibleRosterNames,
                   exactMatchMap, scheduleANames, exactMatches, fuzzyMatches,
                   unmatchedActivityNames, unmatchedRosterNames, BATCH_SIZE,
                   batchStart, batch, matchLog, scored, unmatchedCountLog,
                   matchedRosterLog>>
    /\ UNCHANGED funVars
    /\ UNCHANGED <<workbook, originalCalculationMode, headerRowIndex,
                   rosterColIndex, scheduleAColIndex>>

\* the two statements before try
Enter ==
    /\ pc = "entry"
    /\ originalCalculationMode' = calculationMode
    /\ calculationMode' = "manual"
    /\ mutations' = Append(mutations, setCalculationMode("manual"))
    /\ pc' = "sheets"
    /\ UNCHANGED <<rosterValues, activityValues, row, eligibleRosterNames,
                   exactMatchMap, scheduleANames, exactMatches, fuzzyMatches,
                   unmatchedActivityNames, unmatchedRosterNames, BATCH_SIZE,
                   batchStart, batch, matchLog, scored, unmatchedCountLog,
                   matchedRosterLog>>
    /\ UNCHANGED funVars
    /\ UNCHANGED <<workbook, headerRowIndex, rosterColIndex, scheduleAColIndex>>

\* if (!rosterSheet || !activitySheet) return
ReturnNoSheets ==
    /\ pc = "sheets"
    /\ ~workbook.rosterSheet \/ ~workbook.activitySheet
    /\ leaveMain("returned")

\* if (headerRowIndex === -1) return
ReturnNoHeaderRow ==
    /\ pc = "sheets"
    /\ workbook.rosterSheet /\ workbook.activitySheet
    /\ findHeaderRowIndex(workbook) = -1
    /\ leaveMain("returned")

\* a required column is not in the header row: return
ReturnNoColumns ==
    /\ pc = "sheets"
    /\ workbook.rosterSheet /\ workbook.activitySheet
    /\ findHeaderRowIndex(workbook) # -1
    /\ \E title \in HeaderWords : findIndex(workbook.rosterHeaderRow, title) = -1
    /\ leaveMain("returned")

\* header row and columns found, the rows below the header read in chunks
ReadRoster ==
    /\ pc = "sheets"
    /\ workbook.rosterSheet /\ workbook.activitySheet
    /\ findHeaderRowIndex(workbook) # -1
    /\ \A title \in HeaderWords : findIndex(workbook.rosterHeaderRow, title) # -1
    /\ headerRowIndex' = findHeaderRowIndex(workbook)
    /\ rosterColIndex' = findIndex(workbook.rosterHeaderRow, "Roster")
    /\ pc' = "roster"
    /\ UNCHANGED <<rosterValues, activityValues, row, eligibleRosterNames,
                   exactMatchMap, scheduleANames, exactMatches, fuzzyMatches,
                   unmatchedActivityNames, unmatchedRosterNames, BATCH_SIZE,
                   batchStart, batch, matchLog, scored, unmatchedCountLog,
                   matchedRosterLog>>
    /\ UNCHANGED funVars
    /\ UNCHANGED <<workbook, calculationMode, originalCalculationMode,
                   scheduleAColIndex, mutations>>

\* if (!activityUsedRange) return
ReturnEmptyActivity ==
    /\ pc = "roster"
    /\ row > Len(rosterValues)
    /\ ~workbook.usedRange.defined
    /\ leaveMain("returned")

\* if (scheduleAColIndex === -1) return
ReturnNoScheduleAColumn ==
    /\ pc = "roster"
    /\ row > Len(rosterValues)
    /\ workbook.usedRange.defined
    /\ findIndex(workbook.activityHeaderRow, "Schedule A") = -1
    /\ leaveMain("returned")

\* a call on the workbook throws somewhere inside the try block
Throw ==
    /\ pc \in {"sheets", "roster", "activity", "exact", "batches", "fuzzy"}
    /\ leaveMain("thrown")

\* a call on the workbook throws in Step 4, after k of the formatting calls
ThrowFormatting ==
    /\ pc = "batches"
    /\ batchStart >= Len(unmatchedActivityNames)
    /\ \E formats \in {pinkFills(scheduleANames, scheduleAColIndex, 1)
                        \o redFonts(eligibleRosterNames, headerRowIndex,
                                    rosterColIndex, 1)} :
       \E k \in 1..(Len(formats) - 1) :
           mutations' = mutations \o SubSeq(formats, 1, k)
                        \o <<setCalculationMode(finallyMode(originalCalculationMode))>>
    /\ calculationMode' = finallyMode(originalCalculationMode)
    /\ pc' = "thrown"
    /\ UNCHANGED <<rosterValues, activityValues, row, eligibleRosterNames,
                   exactMatchMap, scheduleANames, exactMatches, fuzzyMatches,
                   unmatchedActivityNames, unmatchedRosterNames, BATCH_SIZE,
                   batchStart, batch, matchLog, scored, unmatchedCountLog,
                   matchedRosterLog>>
    /\ UNCHANGED funVars
    /\ UNCHANGED <<workbook, originalCalculationMode, headerRowIndex,
                   rosterColIndex, scheduleAColIndex>>

NextWorkbook ==
    \/ Enter
    \/ ReturnNoSheets
    \/ ReturnNoHeaderRow
    \/ ReturnNoColumns
    \/ ReadRoster
    \/ ReturnEmptyActivity
    \/ ReturnNoScheduleAColumn
    \/ Throw
    \/ ThrowFormatting
    \/ Next

SpecWorkbook == InitWorkbook /\ [][NextWorkbook]_vars

(***************************************************************************)
(* The scorer applied to drawn strings, in both argument orders            *)
(***************************************************************************)
ScoreAlphabet == {"a", "b", "c"}
Thresholds == {0, 50, TauPct, 100}

mainIdle ==
    /\ pc = "idle"
    /\ rosterValues = <<>>
    /\ activityValues = <<>>
    /\ mainStart
    /\ bookIdle

InitScore ==
    /\ mainIdle
    /\ fpc = "score"
    /\ arg1 \in SeqsUpTo(ScoreAlphabet, MaxStrLen)
    /\ arg2 \in SeqsUpTo(ScoreAlphabet, MaxStrLen)
    /\ threshold \in Thresholds
    /\ arg3 = 0
    /\ out1 = <<>>
    /\ out2 = <<>>

ScoreForward ==
    /\ fpc = "score"
    /\ out1' = calculateOptimizedSimilarity(arg1, arg2, threshold)
    /\ fpc' = "scored1"
    /\ UNCHANGED <<arg1, arg2, arg3, threshold, out2>>
    /\ UNCHANGED mainVars
    /\ UNCHANGED bookVars

ScoreBackward ==
    /\ fpc = "scored1"
    /\ out2' = calculateOptimizedSimilarity(arg2, arg1, threshold)
    /\ fpc' = "scored2"
    /\ UNCHANGED <<arg1, arg2, arg3, threshold, out1>>
    /\ UNCHANGED mainVars
    /\ UNCHANGED bookVars

NextScore == ScoreForward \/ ScoreBackward

SpecScore == InitScore /\ [][NextScore]_vars

(***************************************************************************)
(* The scorer applied to longer strings of few distinct letters: a run of  *)
(* "a" followed by a short run of "b"                                      *)
(***************************************************************************)
MaxBlock == 8    \* longest run of "a"

BlockStrings ==
    {Rep("a", i) \o Rep("b", j) : i \in (MaxBlock - 2)..MaxBlock, j \in 0..2}

InitBlocks ==
    /\ mainIdle
    /\ fpc = "score"
    /\ arg1 \in BlockStrings
    /\ arg2 \in BlockStrings
    /\ arg3 = 0
    /\ threshold = TauPct
    /\ out1 = <<>>
    /\ out2 = <<>>

SpecBlocks == InitBlocks /\ [][NextScore]_vars

(***************************************************************************)
(* The bounded edit distance applied to drawn strings and limits           *)
(***************************************************************************)
InitLev ==
    /\ mainIdle
    /\ fpc = "lev"
    /\ arg1 \in SeqsUpTo(ScoreAlphabet, MaxStrLen)
    /\ arg2 \in SeqsUpTo(ScoreAlphabet, MaxStrLen)
    /\ arg3 \in 0..MaxStrLen
    /\ threshold = TauPct
    /\ out1 = -1
    /\ out2 = -1

LevForward ==
    /\ fpc = "lev"
    /\ out1' = levenshteinDistanceWithLimit(arg1, arg2, arg3)
    /\ fpc' = "lev1"
    /\ UNCHANGED <<arg1, arg2, arg3, threshold, out2>>
    /\ UNCHANGED mainVars
    /\ UNCHANGED bookVars

LevBackward ==
    /\ fpc = "lev1"
    /\ out2' = levenshteinDistanceWithLimit(arg2, arg1, arg3)
    /\ fpc' = "lev2"
    /\ UNCHANGED <<arg1, arg2, arg3, threshold, out1>>
    /\ UNCHANGED mainVars
    /\ UNCHANGED bookVars

NextLev == LevForward \/ LevBackward

SpecLev == InitLev /\ [][NextLev]_vars

(***************************************************************************)
(* The normaliser applied to drawn raw texts, once and once more           *)
(***************************************************************************)
RawAlphabet == {"a", "B", " ", "-", "(", "1"}
LastNames == {<<>>, <<"-", " ", "B">>}

InitNorm ==
    /\ mainIdle
    /\ fpc = "norm"
    /\ arg1 \in SeqsUpTo(RawAlphabet, MaxRawLen)
    /\ arg2 \in LastNames
    /\ threshold = TauPct
    /\ arg3 = 0
    /\ out1 = <<>>
    /\ out2 = <<>>

\* an ActivityReport cell: cleanName, then normalizeActivityName
NormalizeActivity ==
    /\ fpc = "norm"
    /\ arg2 = <<>>
    /\ out1' = normalize(arg1)
    /\ fpc' = "normed1"
    /\ UNCHANGED <<arg1, arg2, arg3, threshold, out2>>
    /\ UNCHANGED mainVars
    /\ UNCHANGED bookVars

\* a Roster row: cleanName on both cells, then normalizeName
NormalizeRoster ==
    /\ fpc = "norm"
    /\ out1' = normalizeName(cleanName(arg1), cleanName(arg2))
    /\ fpc' = "normedR1"
    /\ UNCHANGED <<arg1, arg2, arg3, threshold, out2>>
    /\ UNCHANGED mainVars
    /\ UNCHANGED bookVars

NormalizeActivityAgain ==
    /\ fpc = "normed1"
    /\ out2' = normalize(out1)
    /\ fpc' = "normed2"
    /\ UNCHANGED <<arg1, arg2, arg3, threshold, out1>>
    /\ UNCHANGED mainVars
    /\ UNCHANGED bookVars

NormalizeRosterAgain ==
    /\ fpc = "normedR1"
    /\ out2' = normalizeName(cleanName(out1), cleanName(<<>>))
    /\ fpc' = "normed2"
    /\ UNCHANGED <<arg1, arg2, arg3, threshold, out1>>
    /\ UNCHANGED mainVars
    /\ UNCHANGED bookVars

NextNorm ==
    \/ NormalizeActivity
    \/ NormalizeRoster
    \/ NormalizeActivityAgain
    \/ NormalizeRosterAgain

SpecNorm == InitNorm /\ [][NextNorm]_vars

(***************************************************************************)
(* pay_calc/timesheet_checker.ts: the classifier of one timesheet row      *)
(***************************************************************************)
workPercentageMin == 10     \* CONFIG.workPercentageThresholds.min

MISSED_CLOCK_IN == "MISSED CLOCK IN"
MISSED_CLOCK_OUT == "MISSED CLOCK OUT"
MISSED_BOTH == "MISSED CLOCK IN&OUT"
WORKED_TIME_UNDER_10 == "WORKED TIME < 10%"
REBOOK_SHIFT == "REBOOK SHIFT"
CANCELLED_SHIFT == "CANCELLED SHIFT"
PENDING_SHIFT == "PENDING SHIFT"

Digits == {"0", "1", "2", "3", "4", "5", "6", "7", "8", "9"}

\* a text that new Date() parses, and the same with a timezone after it
Stamp == <<"2", "0", "2", "5", "-", "0", "6", "-", "1", "6", " ",
           "0", "8", ":", "0", "0">>
StampWithZone == Stamp \o <<" ", "+", "1", "0", "0", "0">>

\* dateStr.replace(/\s*[+-]\d{4}$/, "")
stripTimezone(s) ==
    IF /\ Len(s) >= 5
       /\ s[Len(s) - 4] \in {"+", "-"}
       /\ \A i \in (Len(s) - 3)..Len(s) : s[i] \in Digits
    THEN trimEnd(SubSeq(s, 1, Len(s) - 5))
    ELSE s

\* !isNaN(parseDate(value).getTime()) for a text value: the texts new Date()
\* parses are those of the pool that are timestamps
parsesAsDate(value) == trim(stripTimezone(trim(value))) = Stamp

hasValidTimeValue(value) ==
    IF ~truthy(value) THEN FALSE
    ELSE IF trim(value) = <<>> \/ lower(trim(value)) = <<"n", "u", "l", "l">>
            \/ trim(value) = <<"0">>
         THEN FALSE
    ELSE parsesAsDate(value)

\* the last two checks of determineErrorTypes
clockErrors(shiftRow) ==
    LET hasClockIn == hasValidTimeValue(shiftRow.clockinDateTime)
        hasClockOut == hasValidTimeValue(shiftRow.clockoutDateTime)
    IN  IF ~hasClockIn /\ ~hasClockOut THEN <<MISSED_BOTH>>
        ELSE IF ~hasClockIn THEN <<MISSED_CLOCK_IN>>
        ELSE IF ~hasClockOut THEN <<MISSED_CLOCK_OUT>>
        ELSE <<>>

\* percentage < min, for percentage = (workedTime / bookedTime) * 100
percentageErrors(bookedTime, workedTime) ==
    IF bookedTime > 0 /\ workedTime > 0
       /\ workedTime * 100 < workPercentageMin * bookedTime
    THEN <<WORKED_TIME_UNDER_10>> ELSE <<>>

\* faulty variant: the status is looked at before the shift type
determineErrorTypesStatusFirst(shiftRow, bookedTime, workedTime) ==
    LET shiftType == trim(lower(shiftRow.shiftType))
        status == trim(lower(shiftRow.status))
    IN  IF status = <<"c", "a", "n", "c", "e", "l", "l", "e", "d">>
        THEN <<CANCELLED_SHIFT>>
        ELSE IF status = <<"p", "e", "n", "d", "i", "n", "g">>
        THEN <<PENDING_SHIFT>>
        ELSE IF shiftType = <<"r", "e", "b", "o", "o", "k">>
        THEN <<REBOOK_SHIFT>>
        ELSE clockErrors(shiftRow) \o percentageErrors(bookedTime, workedTime)

determineErrorTypes(shiftRow, bookedTime, workedTime) ==
    LET shiftType == trim(lower(shiftRow.shiftType))
        status == trim(lower(shiftRow.status))
    IN  IF shiftType = <<"r", "e", "b", "o", "o", "k">>
        THEN <<REBOOK_SHIFT>>
        ELSE IF status = <<"c", "a", "n", "c", "e", "l", "l", "e", "d">>
        THEN <<CANCELLED_SHIFT>>
        ELSE IF status = <<"p", "e", "n", "d", "i", "n", "g">>
        THEN <<PENDING_SHIFT>>
        ELSE clockErrors(shiftRow) \o percentageErrors(bookedTime, workedTime)

\* the cells of a row the classifier reads; times in tenths of an hour
ShiftTypeCells ==
    { <<>>, <<"R", "e", "b", "o", "o", "k", " ">>, <<"d", "a", "y">> }
StatusCells ==
    { <<>>, <<" ", "C", "A", "N", "C", "E", "L", "L", "E", "D">>,
      <<"p", "e", "n", "d", "i", "n", "g">>, <<"b", "o", "o", "k", "e", "d">> }
ClockCells ==
    { <<>>, <<" ">>, <<"N", "u", "l", "l">>, <<"0">>, <<"x">>, Stamp,
      StampWithZone }
BookedTimes == {-10, 0, 10, 80}
WorkedTimes == {0, 7, 8, 80}

InitTimesheet ==
    /\ mainIdle
    /\ fpc = "classify"
    /\ arg1 \in [shiftType : ShiftTypeCells, status : StatusCells,
                 clockinDateTime : ClockCells, clockoutDateTime : ClockCells]
    /\ arg2 \in BookedTimes
    /\ arg3 \in WorkedTimes
    /\ threshold = TauPct
    /\ out1 = <<>>
    /\ out2 = <<>>

Classify ==
    /\ fpc = "classify"
    /\ out1' = determineErrorTypes(arg1, arg2, arg3)
    /\ fpc' = "classified"
    /\ UNCHANGED <<arg1, arg2, arg3, threshold, out2>>
    /\ UNCHANGED mainVars
    /\ UNCHANGED bookVars

NextTimesheet == Classify

SpecTimesheet == InitTimesheet /\ [][NextTimesheet]_vars

(***************************************************************************)
(* The run without batches: every loop of main folded over its array, the  *)
(* fuzzy pass over the whole of unmatchedActivityNames in one go           *)
(***************************************************************************)
RECURSIVE rosterAll(_, _, _)
rosterAll(st, r, values) ==
    IF r > Len(values) THEN st
    ELSE rosterAll(rosterStep(st, r, values), r + 1, values)

RECURSIVE activityAll(_, _, _)
activityAll(names, r, values) ==
    IF r > Len(values) THEN names
    ELSE activityAll(activityStep(names, r, values), r + 1, values)

RECURSIVE exactAll(_, _, _)
exactAll(st, b, map) ==
    IF b > Len(st.schedule) THEN st
    ELSE exactAll(exactStep(st, b, map), b + 1, map)

RECURSIVE fuzzyAll(_, _, _, _)
fuzzyAll(st, k, residue, pool) ==
    IF k > Len(residue) THEN st
    ELSE fuzzyAll(fuzzyStep(st, residue[k], pool), k + 1, residue, pool)

fuzzyWhole(st) ==
    fuzzyAll(st, 1, filterUnmatched(st.schedule, 1),
             filterUnmatched(st.eligible, 1))

exactWhole(roster, names) ==
    exactAll([eligible |-> roster.eligible, schedule |-> names, exact |-> 0,
              fuzzy |-> 0, log |-> <<>>, scored |-> <<>>], 1, roster.map)

runUnbatched(rValues, aValues) ==
    fuzzyWhole(exactWhole(rosterAll([eligible |-> <<>>, map |-> <<>>], 1, rValues),
                          activityAll(<<>>, 1, aValues)))

(***************************************************************************)
(* Vocabulary of the properties                                            *)
(***************************************************************************)
Done == pc = "done"
ExactOver == pc \in {"batches", "fuzzy", "done"}

Range(f) == {f[i] : i \in DOMAIN f}
AIdx == 1..Len(eligibleRosterNames)
BIdx == 1..Len(scheduleANames)
LogIdx == 1..Len(matchLog)
ScoredIdx == 1..Len(scored)

nameA(a) == eligibleRosterNames[a].normalizedName
nameB(b) == scheduleANames[b].normalizedName

\* the A-records carrying a name, and the last of them in input order
carriers(name) == {a \in AIdx : nameA(a) = name}
lastCarrier(name) == CHOOSE a \in carriers(name) : \A k \in carriers(name) : k <= a
firstCarrier(name) == CHOOSE a \in carriers(name) : \A k \in carriers(name) : a <= k

\* the normalised name of an input row, whether or not the row is admitted
rosterRowName(r) ==
    normalizeName(cleanName(rosterValues[r].firstName),
                  cleanName(rosterValues[r].lastName))
activityRowName(r) == normalize(activityValues[r])

\* the input rows main has marked matched
matchedRosterRows ==
    {eligibleRosterNames[a].rowIndex : a \in {k \in AIdx : eligibleRosterNames[k].matched}}
matchedActivityRows ==
    {scheduleANames[b].rowIndex : b \in {k \in BIdx : scheduleANames[k].matched}}

peersOfA(a) == {i \in LogIdx : matchLog[i].a = a}
peersOfB(b) == {i \in LogIdx : matchLog[i].b = b}

\* the Levenshtein distance by its defining recurrence, with no limit
editDistance(s, t) ==
    LET D[i \in 0..Len(s), j \in 0..Len(t)] ==
            IF i = 0 THEN j
            ELSE IF j = 0 THEN i
            ELSE Min3(D[i - 1, j] + 1, D[i, j - 1] + 1,
                      D[i - 1, j - 1] + (IF s[i] = t[j] THEN 0 ELSE 1))
    IN  D[Len(s), Len(t)]

(***************************************************************************)
(* C1: after a full run the match is one-to-one: every matched record on   *)
(* either side is the peer of exactly one matched record on the other      *)
(* side, and an unmatched record is nobody's peer.                         *)
(***************************************************************************)
C1_OneToOne ==
    Done =>
        /\ \A a \in AIdx :
               Cardinality(peersOfA(a)) =
                   IF eligibleRosterNames[a].matched THEN 1 ELSE 0
        /\ \A b \in BIdx :
               Cardinality(peersOfB(b)) =
                   IF scheduleANames[b].matched THEN 1 ELSE 0

(***************************************************************************)
(* C2: an A-record chosen as the fuzzy match of a B-record is not scored   *)
(* as a candidate for, nor chosen by, any B-record processed later in the  *)
(* fuzzy pass.                                                             *)
(***************************************************************************)
C2_ChosenLeavesPool ==
    \A i \in ScoredIdx : \A j \in ScoredIdx :
        (i < j /\ scored[i].chosen # 0) =>
            /\ scored[i].chosen \notin Range(scored[j].candidates)
            /\ scored[j].chosen # scored[i].chosen

(***************************************************************************)
(* C3 as stated: every A-record a and B-record b with equal (non-empty)    *)
(* normalised names are reported as an exact match of each other with      *)
(* score 1.0, and neither is in the residue the fuzzy pass works on.       *)
(***************************************************************************)
C3_EveryEqualPairExact ==
    ExactOver =>
        \A a \in AIdx : \A b \in BIdx :
            nameA(a) = nameB(b) =>
                /\ \E i \in LogIdx :
                       matchLog[i] = [kind |-> "Exact", b |-> b, a |-> a,
                                      score |-> One]
                /\ a \notin Range(unmatchedRosterNames)
                /\ b \notin Range(unmatchedActivityNames)

(***************************************************************************)
(* C3 amended: every B-record b whose normalised name is carried by some   *)
(* A-record is reported as an exact match, with score 1.0, of the LAST     *)
(* A-record in input order that carries the name; b and that A-record are  *)
(* marked matched, are absent from the residue of the fuzzy pass, and the  *)
(* fuzzy pass never touches them.  (Earlier A-records with the same name   *)
(* are not matched by the exact pass.)                                     *)
(***************************************************************************)
C3_ExactHitConsumed ==
    ExactOver =>
        \A b \in BIdx :
            carriers(nameB(b)) # {} =>
                LET a == lastCarrier(nameB(b))
                IN  /\ \E i \in LogIdx :
                           matchLog[i] = [kind |-> "Exact", b |-> b, a |-> a,
                                          score |-> One]
                    /\ SameScore(calculateOptimizedSimilarity(nameB(b), nameA(a), TauPct), One)
                    /\ scheduleANames[b].matched
                    /\ eligibleRosterNames[a].matched
                    /\ a \notin Range(unmatchedRosterNames)
                    /\ b \notin Range(unmatchedActivityNames)
                    /\ \A i \in LogIdx :
                           matchLog[i].kind = "Fuzzy" =>
                               matchLog[i].a # a /\ matchLog[i].b # b

\* a finished run in which a name carried by two A-records was looked up,
\* and the fuzzy pass matched something as well
C3_Witness ==
    /\ Done
    /\ \E b \in BIdx : Cardinality(carriers(nameB(b))) >= 2
    /\ \E i \in LogIdx : matchLog[i].kind = "Fuzzy"

(***************************************************************************)
(* C4 as stated: the exact-match index maps a name carried by several      *)
(* A-records to the FIRST of them, and an exact match is with the first.   *)
(***************************************************************************)
C4_IndexKeepsFirst ==
    /\ \A name \in DOMAIN exactMatchMap :
           exactMatchMap[name] = firstCarrier(name)
    /\ \A i \in LogIdx :
           matchLog[i].kind = "Exact" =>
               matchLog[i].a = firstCarrier(nameA(matchLog[i].a))

(***************************************************************************)
(* C4 amended: the exact-match index maps a name carried by several        *)
(* A-records to the LAST of them in input order (each later duplicate      *)
(* overwrites the entry); an exact lookup returns the latest A-record and  *)
(* an earlier duplicate is never marked matched by the exact pass.         *)
(***************************************************************************)
C4_IndexKeepsLast ==
    /\ DOMAIN exactMatchMap = {nameA(a) : a \in AIdx}
    /\ \A name \in DOMAIN exactMatchMap :
           exactMatchMap[name] = lastCarrier(name)
    /\ \A i \in LogIdx :
           matchLog[i].kind = "Exact" =>
               matchLog[i].a = lastCarrier(nameA(matchLog[i].a))
    /\ (pc = "exact" \/ ExactOver) =>
           \A a \in AIdx :
               (a # lastCarrier(nameA(a)) /\ eligibleRosterNames[a].matched) =>
                   \E i \in LogIdx : matchLog[i].kind = "Fuzzy" /\ matchLog[i].a = a

\* a finished run with two A-records of one name, which a B-record looked up
C4_Witness ==
    /\ Done
    /\ \E i \in LogIdx :
           /\ matchLog[i].kind = "Exact"
           /\ Cardinality(carriers(nameA(matchLog[i].a))) >= 2
           /\ ~eligibleRosterNames[firstCarrier(nameA(matchLog[i].a))].matched

(***************************************************************************)
(* C5: a fuzzy candidate is accepted only with a score strictly above      *)
(* 0.85; a B-record whose best score is exactly 0.85 (the scorer lets it   *)
(* through with that score) is not matched: it stays unmatched and no      *)
(* match is recorded for it.                                               *)
(***************************************************************************)
AtTau(x) == x[1] * 100 = TauPct * x[2]

C5_StrictThreshold ==
    \A k \in ScoredIdx :
        /\ scored[k].chosen # 0 => AboveTau(scored[k].bestScore, TauPct)
        /\ AtTau(scored[k].bestScore) =>
               /\ scored[k].chosen = 0
               /\ ~scheduleANames[scored[k].b].matched
               /\ peersOfB(scored[k].b) = {}

\* a finished run in which a B-record's best candidate scored exactly 17/20
\* and the candidate is still unmatched
C5_Witness ==
    /\ Done
    /\ \E k \in ScoredIdx :
           /\ scored[k].bestScore = <<17, 20>>
           /\ scored[k].chosen = 0
           /\ \E a \in Range(scored[k].candidates) :
                  /\ ~eligibleRosterNames[a].matched
                  /\ calculateOptimizedSimilarity(
                         nameB(scored[k].b), nameA(a), TauPct) = <<17, 20>>

(***************************************************************************)
(* C6: the similarity score is symmetric in its two string arguments, for  *)
(* every threshold.                                                        *)
(***************************************************************************)
C6_Symmetric == fpc = "scored2" => SameScore(out1, out2)

\* the row at which the bounded edit distance gives up (0: it runs to the end)
RECURSIVE abortRowFrom(_, _, _, _, _)
abortRowIf(curr, str1, str2, maxDistance, i) ==
    IF SeqMin(curr) > maxDistance THEN i
    ELSE abortRowFrom(curr, str1, str2, maxDistance, i + 1)

abortRowFrom(prev, str1, str2, maxDistance, i) ==
    IF i > Len(str1) THEN 0
    ELSE abortRowIf(fillRow(prev, <<i>>, str1[i], str2, 1),
                    str1, str2, maxDistance, i)

abortRow(str1, str2, tauPct) ==
    abortRowFrom([j \in 1..(Len(str2) + 1) |-> j - 1], str1, str2,
                 (Max(Len(str1), Len(str2)) * (100 - tauPct)) \div 100, 1)

reachesEditDistance(str1, str2, tauPct) ==
    LET maxLength == Max(Len(str1), Len(str2))
    IN  /\ maxLength # 0
        /\ ~(Abs(Len(str1) - Len(str2)) * 100 > maxLength * (100 - tauPct))
        /\ charAt0(str1) = charAt0(str2)
        /\ ~jaccardBelow(jaccardSimilarity(str1, str2))

\* both orders scored, the edit distance was computed, and it gave up at
\* different rows in the two orders
C6_Witness ==
    /\ fpc = "scored2"
    /\ reachesEditDistance(arg1, arg2, threshold)
    /\ abortRow(arg1, arg2, threshold) # 0
    /\ abortRow(arg1, arg2, threshold) # abortRow(arg2, arg1, threshold)

(***************************************************************************)
(* C7: normalising a normalised name changes nothing.                      *)
(***************************************************************************)
C7_Idempotent == fpc = "normed2" => out2 = out1

\* a text that normalisation changed into a non-empty name, normalised twice
C7_Witness ==
    /\ fpc = "normed2"
    /\ out1 # <<>>
    /\ out1 # arg1
    /\ Len(out1) < Len(arg1)

(***************************************************************************)
(* C8: an input row whose normalised name is empty is never marked         *)
(* matched, on either side, in either pass; no record with an empty name   *)
(* takes part in matching.                                                 *)
(***************************************************************************)
C8_EmptyNeverMatched ==
    /\ \A a \in AIdx : nameA(a) # <<>>
    /\ \A b \in BIdx : nameB(b) # <<>>
    /\ \A r \in 1..Len(rosterValues) :
           rosterRowName(r) = <<>> => r \notin matchedRosterRows
    /\ \A r \in 1..Len(activityValues) :
           activityRowName(r) = <<>> => r \notin matchedActivityRows
    /\ \A i \in LogIdx : nameA(matchLog[i].a) # <<>> /\ nameB(matchLog[i].b) # <<>>

\* a finished run over an eligible roster row and a non-blank activity cell
\* that both normalise to the empty name
C8_Witness ==
    /\ Done
    /\ \E r \in 1..Len(rosterValues) :
           /\ trim(rosterValues[r].roster) \in scheduleATypes
           /\ rosterRowName(r) = <<>>
    /\ \E r \in 1..Len(activityValues) :
           /\ trim(activityValues[r]) # <<>>
           /\ activityRowName(r) = <<>>

(***************************************************************************)
(* C9 as stated: the reported number of unmatched B-records counts every   *)
(* B input record that is not matched, those whose text normalises to the  *)
(* empty string included.                                                  *)
(***************************************************************************)
C9_EmptyNamesCounted ==
    Done =>
        unmatchedCountLog =
            Cardinality({r \in 1..Len(activityValues) :
                            /\ trim(activityValues[r]) # <<>>
                            /\ r \notin matchedActivityRows})

(***************************************************************************)
(* C9 amended: an input record whose normalised name is empty is not an    *)
(* error, but it is dropped before matching and counted nowhere: the       *)
(* reported number of unmatched B-records is the number of unmatched       *)
(* B input records with a non-empty normalised name.                       *)
(***************************************************************************)
C9_UnmatchedCountsAdmitted ==
    Done =>
        /\ unmatchedCountLog =
               Cardinality({r \in 1..Len(activityValues) :
                               /\ activityRowName(r) # <<>>
                               /\ r \notin matchedActivityRows})
        /\ {scheduleANames[b].rowIndex : b \in BIdx} =
               {r \in 1..Len(activityValues) : activityRowName(r) # <<>>}

\* a finished run with a non-blank cell that normalises to the empty name
\* beside a counted unmatched record
C9_Witness ==
    /\ Done
    /\ unmatchedCountLog = 1
    /\ \E r \in 1..Len(activityValues) :
           /\ trim(activityValues[r]) # <<>>
           /\ activityRowName(r) = <<>>

(***************************************************************************)
(* C10: the batch size has no effect on the result: for every batch size   *)
(* the matched flags, the recorded pairs and the two counts at the end of  *)
(* the run are those of the run that takes the whole residue as one batch. *)
(***************************************************************************)
C10_BatchingInvisible ==
    Done => matchState = runUnbatched(rosterValues, activityValues)

\* a finished run that took more than one batch and matched in the last one
C10_Witness ==
    /\ Done
    /\ BATCH_SIZE < Len(unmatchedActivityNames)
    /\ \E i \in LogIdx :
           /\ matchLog[i].kind = "Fuzzy"
           /\ matchLog[i].b = unmatchedActivityNames[Len(unmatchedActivityNames)]

(***************************************************************************)
(* C11: in the fuzzy pass the A-record chosen for a B-record has the       *)
(* maximum score among the candidates scanned for it, and among candidates *)
(* of equal score the earliest in A's input order wins: every candidate    *)
(* scanned before the chosen one scored strictly less, and none scored     *)
(* more.  The candidates are scanned in input order.                       *)
(***************************************************************************)
scoreOn(i, k) ==
    calculateOptimizedSimilarity(nameB(scored[i].b),
                                 nameA(scored[i].candidates[k]), TauPct)

C11_FirstMaximumChosen ==
    \A i \in ScoredIdx :
        LET cand == scored[i].candidates
        IN  /\ \A j \in 1..Len(cand) : \A k \in 1..Len(cand) :
                   j < k => eligibleRosterNames[cand[j]].rowIndex
                                < eligibleRosterNames[cand[k]].rowIndex
            /\ \A k \in 1..Len(cand) : ~Less(scored[i].bestScore, scoreOn(i, k))
            /\ scored[i].chosen # 0 =>
                   \E k \in 1..Len(cand) :
                       /\ cand[k] = scored[i].chosen
                       /\ SameScore(scoreOn(i, k), scored[i].bestScore)
                       /\ \A j \in 1..(k - 1) :
                              Less(scoreOn(i, j), scored[i].bestScore)

\* a B-record for which two candidates tie at the maximum and the earlier
\* one was chosen
C11_Witness ==
    \E i \in ScoredIdx :
        /\ scored[i].chosen # 0
        /\ \E j \in 1..Len(scored[i].candidates) :
           \E k \in 1..Len(scored[i].candidates) :
               /\ j < k
               /\ scored[i].candidates[j] = scored[i].chosen
               /\ SameScore(scoreOn(i, j), scoreOn(i, k))

(***************************************************************************)
(* C12: with the roster rows "john smith", "jane doe" and the activity     *)
(* cells "John Smith (note)", "jane dow", the first cell exact-matches the *)
(* first row through the shared normalised name "johnsmith", the second    *)
(* cell fuzzy-matches the second row with a score above 0.85, and the run  *)
(* ends with exactMatches = 1, fuzzyMatches = 1 and nothing unmatched on   *)
(* either side.                                                            *)
(***************************************************************************)
JohnAndJane ==
    /\ rosterValues = <<JohnRow, JaneRow>>
    /\ activityValues = <<JohnSmithNote, JaneDow>>

C12_JohnAndJane ==
    (Done /\ JohnAndJane) =>
        /\ nameA(1) = <<"j", "o", "h", "n", "s", "m", "i", "t", "h">>
        /\ nameB(1) = nameA(1)
        /\ Len(matchLog) = 2
        /\ matchLog[1] = [kind |-> "Exact", b |-> 1, a |-> 1, score |-> One]
        /\ matchLog[2].kind = "Fuzzy" /\ matchLog[2].b = 2 /\ matchLog[2].a = 2
        /\ AboveTau(matchLog[2].score, TauPct)
        /\ exactMatches = 1
        /\ fuzzyMatches = 1
        /\ unmatchedCountLog = 0
        /\ \A b \in BIdx : scheduleANames[b].matched
        /\ \A a \in AIdx : eligibleRosterNames[a].matched
        /\ Len(eligibleRosterNames) = 2 /\ Len(scheduleANames) = 2

\* the run over these four rows has ended
C12_Witness == Done /\ JohnAndJane /\ exactMatches + fuzzyMatches = 2

(***************************************************************************)
(* C13 as stated: for the normalised pair that comes from "jane dow" and   *)
(* "jane doe" the scorer works over a maximum length of 8 and returns      *)
(* 7/8 = 0.875.                                                            *)
(***************************************************************************)
JaneDowName == <<"j", "a", "n", "e", "d", "o", "w">>
JaneDoeName == <<"j", "a", "n", "e", "d", "o", "e">>

\* s and t have one length and differ in exactly one place: edit distance 1
oneSubstitution(s, t) ==
    /\ Len(s) = Len(t)
    /\ Cardinality({i \in 1..Len(s) : s[i] # t[i]}) = 1

janePairs ==
    {p \in ScoredIdx \X AIdx :
        /\ nameB(scored[p[1]].b) = JaneDowName
        /\ nameA(p[2]) = JaneDoeName
        /\ p[2] \in Range(scored[p[1]].candidates)}

C13_SevenEighths ==
    \A p \in janePairs :
        /\ Max(Len(nameB(scored[p[1]].b)), Len(nameA(p[2]))) = 8
        /\ oneSubstitution(nameB(scored[p[1]].b), nameA(p[2]))
        /\ SameScore(scored[p[1]].bestScore, <<7, 8>>)

(***************************************************************************)
(* C13 amended: the pair normalises to "janedow" and "janedoe", seven      *)
(* letters each (the space is removed); the scorer computes edit distance  *)
(* 1 over maximum length 7 and returns 6/7, which is above 0.85.           *)
(***************************************************************************)
C13_SixSevenths ==
    /\ \A r \in 1..Len(activityValues) :
           activityValues[r] = JaneDow => activityRowName(r) = JaneDowName
    /\ \A r \in 1..Len(rosterValues) :
           rosterValues[r] = JaneRow => rosterRowName(r) = JaneDoeName
    /\ \A p \in janePairs :
           /\ Max(Len(nameB(scored[p[1]].b)), Len(nameA(p[2]))) = 7
           /\ oneSubstitution(nameB(scored[p[1]].b), nameA(p[2]))
           /\ levenshteinDistanceWithLimit(nameB(scored[p[1]].b), nameA(p[2]), 1) = 1
           /\ scored[p[1]].bestScore = <<6, 7>>
           /\ AboveTau(scored[p[1]].bestScore, TauPct)
           /\ scored[p[1]].chosen # 0

\* the fuzzy pass has scored "janedow" against "janedoe"
C13_Witness == janePairs # {}

(***************************************************************************)
(* C14 as stated: with the roster row "alice brown" and the activity cell  *)
(* "bob green" the pair is rejected by the first-character filter with     *)
(* score 0, and the run ends with no exact match, no fuzzy match and one   *)
(* unmatched record on each side.                                          *)
(***************************************************************************)
AliceAndBob ==
    /\ rosterValues = <<AliceRow>>
    /\ activityValues = <<BobGreen>>

aliceBobReport ==
    /\ scored = <<[b |-> 1, candidates |-> <<1>>, bestScore |-> Zero,
                   chosen |-> 0]>>
    /\ calculateOptimizedSimilarity(nameB(1), nameA(1), TauPct) = Zero
    /\ exactMatches = 0
    /\ fuzzyMatches = 0
    /\ unmatchedCountLog = 1
    /\ matchedRosterLog = 0
    /\ Len(scheduleANames) = 1 /\ ~scheduleANames[1].matched
    /\ Len(eligibleRosterNames) = 1 /\ ~eligibleRosterNames[1].matched

C14_FirstCharacterRejects ==
    (Done /\ AliceAndBob) =>
        /\ returnTaken(nameB(1), nameA(1), TauPct) = "firstChar"
        /\ aliceBobReport

(***************************************************************************)
(* C14 amended: the pair "bobgreen" / "alicebrown" is rejected with score  *)
(* 0 by the length filter (lengths 8 and 10 differ by 2, more than 15% of  *)
(* 10), which runs before the first-character filter; the first characters *)
(* differ as well.  The run ends with no exact match, no fuzzy match and   *)
(* one unmatched record on each side.                                      *)
(***************************************************************************)
C14_LengthRejects ==
    (Done /\ AliceAndBob) =>
        /\ Len(nameB(1)) = 8 /\ Len(nameA(1)) = 10
        /\ returnTaken(nameB(1), nameA(1), TauPct) = "length"
        /\ charAt0(nameB(1)) # charAt0(nameA(1))
        /\ aliceBobReport

\* the run over the two rows has ended with the pair scored
C14_Witness == Done /\ AliceAndBob /\ Len(scored) = 1

(***************************************************************************)
(* C15: for every threshold, the score of two empty strings is 1, and the  *)
(* score of a non-empty string against the empty string is 0 in either     *)
(* argument order.  No call divides by zero: the call on two empty strings *)
(* returns before any division, and whenever the Jaccard ratio or the      *)
(* final quotient is computed its denominator (the size of the union, the  *)
(* maximum length) is positive.                                            *)
(***************************************************************************)
dividesIn(str1, str2, tauPct) ==
    returnTaken(str1, str2, tauPct) \in {"jaccard", "distance", "score"}

C15_EmptyStrings ==
    fpc = "scored2" =>
        /\ (arg1 = <<>> /\ arg2 = <<>>) =>
               /\ out1 = One /\ out2 = One
               /\ returnTaken(arg1, arg2, threshold) = "empty"
        /\ ((arg1 = <<>>) # (arg2 = <<>>)) =>
               /\ out1 = Zero /\ out2 = Zero
               /\ ~dividesIn(arg1, arg2, threshold)
               /\ ~dividesIn(arg2, arg1, threshold)
        /\ out1[2] # 0 /\ out2[2] # 0
        /\ dividesIn(arg1, arg2, threshold) =>
               /\ jaccardSimilarity(arg1, arg2)[2] > 0
               /\ Max(Len(arg1), Len(arg2)) > 0

\* an empty string scored against a non-empty one at threshold 0, where the
\* length filter lets the pair through
C15_Witness ==
    /\ fpc = "scored2"
    /\ arg1 = <<>> /\ arg2 # <<>>
    /\ threshold = 0
    /\ returnTaken(arg1, arg2, threshold) = "firstChar"
    /\ out1 = Zero /\ out2 = Zero

(***************************************************************************)
(* C16: for all strings and thresholds the score lies in [0, 1], it is 1   *)
(* only when the edit distance of the two strings is 0, and whenever it is *)
(* not 0 it equals (maxLen - d) / maxLen, d being the true Levenshtein     *)
(* distance of the two strings (for two empty strings, where maxLen = 0,   *)
(* the score is 1 and d = 0).                                              *)
(***************************************************************************)
scoreInContract(out, str1, str2) ==
    LET maxLen == Max(Len(str1), Len(str2))
        d == editDistance(str1, str2)
    IN  /\ out[2] > 0 /\ 0 <= out[1] /\ out[1] <= out[2]
        /\ SameScore(out, One) => d = 0
        /\ out[1] # 0 =>
               IF maxLen = 0 THEN out = One /\ d = 0
               ELSE out = <<maxLen - d, maxLen>>

C16_ScoreContract ==
    /\ fpc \in {"scored1", "scored2"} => scoreInContract(out1, arg1, arg2)
    /\ fpc = "scored2" => scoreInContract(out2, arg2, arg1)

\* a score strictly between 0 and 1 has been returned
C16_Witness ==
    /\ fpc = "scored2"
    /\ out1[1] # 0
    /\ editDistance(arg1, arg2) > 0
    /\ Len(arg1) # Len(arg2)

(***************************************************************************)
(* C17: the run has no fatal-error path.  Whatever the sheets hold (no     *)
(* rows, an empty residual roster pool, duplicate names, names that score  *)
(* 0 against every candidate):                                             *)
(*  - every index used is in range: the exact-match index points into the  *)
(*    roster entries, and whenever the scan of an entry ends with a score  *)
(*    above the threshold its bestMatchIndex is a position of the residual *)
(*    pool and the findIndex by row succeeds;                              *)
(*  - no division is by zero: every name scored is non-empty, so the       *)
(*    union of characters and the maximum length are positive;             *)
(*  - a finished run is complete and its flags and counts agree with the   *)
(*    matches made: every residual activity entry was scored once, an      *)
(*    entry on either side is marked exactly when a match names it, and    *)
(*    the two counters count the matches of their kind.                    *)
(***************************************************************************)
indicesInRange ==
    /\ \A name \in DOMAIN exactMatchMap : exactMatchMap[name] \in AIdx
    /\ Range(unmatchedRosterNames) \subseteq AIdx
    /\ Range(unmatchedActivityNames) \subseteq BIdx
    /\ Range(batch) \subseteq BIdx
    /\ (pc = "fuzzy" /\ row <= Len(batch)) =>
           LET best == scanRoster(unmatchedRosterNames, eligibleRosterNames,
                                  nameB(batch[row]), 1, Zero, 0)
           IN  accepts(best.score) =>
                   /\ best.index \in 1..Len(unmatchedRosterNames)
                   /\ findIndexByRow(eligibleRosterNames,
                          eligibleRosterNames[unmatchedRosterNames[best.index]].rowIndex) # 0

noZeroDivisor ==
    /\ \A a \in AIdx : nameA(a) # <<>>
    /\ \A b \in BIdx : nameB(b) # <<>>
    /\ \A a \in AIdx : \A b \in BIdx :
           /\ jaccardSimilarity(nameB(b), nameA(a))[2] > 0
           /\ Max(Len(nameB(b)), Len(nameA(a))) > 0
    /\ \A i \in ScoredIdx : scored[i].bestScore[2] > 0

reportComplete ==
    /\ \A b \in BIdx :
           b \in Range(unmatchedActivityNames)
               <=> Cardinality({i \in ScoredIdx : scored[i].b = b}) = 1
    /\ Len(scored) = Len(unmatchedActivityNames)
    /\ \A b \in BIdx : scheduleANames[b].matched <=> peersOfB(b) # {}
    /\ \A a \in AIdx : eligibleRosterNames[a].matched <=> peersOfA(a) # {}
    /\ \A i \in LogIdx : matchLog[i].a \in AIdx /\ matchLog[i].b \in BIdx
    /\ exactMatches = Cardinality({i \in LogIdx : matchLog[i].kind = "Exact"})
    /\ fuzzyMatches = Cardinality({i \in LogIdx : matchLog[i].kind = "Fuzzy"})
    /\ unmatchedCountLog \in 0..Len(scheduleANames)
    /\ matchedRosterLog = Len(matchLog)

unmatchedB == {b \in BIdx : ~scheduleANames[b].matched}

C18_OneOutcomePerB ==
    Done =>
        /\ \A b \in BIdx :
               Cardinality(peersOfB(b)) = IF b \in unmatchedB THEN 0 ELSE 1
        /\ exactMatches = Cardinality({i \in LogIdx : matchLog[i].kind = "Exact"})
        /\ fuzzyMatches = Cardinality({i \in LogIdx : matchLog[i].kind = "Fuzzy"})
        /\ Cardinality(unmatchedB)
               = Len(scheduleANames) - exactMatches - fuzzyMatches
        /\ unmatchedCountLog = Cardinality(unmatchedB)

\* a finished run with a matched and an unmatched activity entry
C18_Witness ==
    /\ Done
    /\ exactMatches + fuzzyMatches >= 1
    /\ unmatchedCountLog >= 1

(***************************************************************************)
(* C19: at the end of a run the number of roster entries marked matched    *)
(* (the entries turned red) equals exactMatches + fuzzyMatches, the figure *)
(* reported as the number of matched roster entries.                       *)
(***************************************************************************)
matchedA == {a \in AIdx : eligibleRosterNames[a].matched}

C19_MatchedRosterCount ==
    Done =>
        /\ Cardinality(matchedA) = exactMatches + fuzzyMatches
        /\ matchedRosterLog = Cardinality(matchedA)

(***************************************************************************)
(* C20: only roster rows whose trimmed Roster cell is "Schedule A",        *)
(* "Schedule A Monthly", "Weekly" or "TriWeekly" take part.  A row of any  *)
(* other type has no roster entry, so it is never in the exact-match       *)
(* index, never a candidate of the fuzzy pass, never the peer of a match   *)
(* and never marked matched, whatever the activity cells hold.             *)
(***************************************************************************)
eligibleRow(r) == trim(rosterValues[r].roster) \in scheduleATypes
rowOfA(a) == eligibleRosterNames[a].rowIndex

C20_OnlyScheduleATypes ==
    /\ \A a \in AIdx : rowOfA(a) \in 1..Len(rosterValues) /\ eligibleRow(rowOfA(a))
    /\ \A r \in 1..Len(rosterValues) :
           ~eligibleRow(r) =>
               /\ \A name \in DOMAIN exactMatchMap :
                      rowOfA(exactMatchMap[name]) # r
               /\ \A k \in 1..Len(unmatchedRosterNames) :
                      rowOfA(unmatchedRosterNames[k]) # r
               /\ \A i \in ScoredIdx : \A k \in 1..Len(scored[i].candidates) :
                      rowOfA(scored[i].candidates[k]) # r
               /\ \A i \in LogIdx : rowOfA(matchLog[i].a) # r
               /\ r \notin matchedRosterRows

\* a finished run with a roster row of another type whose name an activity
\* entry carries; the entry ends unmatched
C20_Witness ==
    /\ Done
    /\ \E r \in 1..Len(rosterValues) : \E b \in BIdx :
           /\ ~eligibleRow(r)
           /\ rosterRowName(r) = nameB(b)
           /\ ~scheduleANames[b].matched
           /\ Len(scored) > 0

(***************************************************************************)
(* C21: after a completed run the pink fill is on exactly the              *)
(* ActivityReport cells the unmatched Schedule A entries were read from,   *)
(* and the red font on exactly the Roster-column cells of the rows the     *)
(* matched roster entries were read from; nothing else is formatted.  This *)
(* for every row the Roster header is found in and every place the         *)
(* ActivityReport used range starts at.                                    *)
(***************************************************************************)
\* the name of column number c in A1 notation, for c up to 702
columnName(c) ==
    IF c <= 26 THEN <<64 + c>>
    ELSE <<64 + ((c - 1) \div 26), 65 + ((c - 1) % 26)>>

\* where the k-th data row of each table is in its sheet
activityCellOf(k) ==
    <<"ActivityReport",
      columnName(workbook.usedRange.col
                 + findIndex(workbook.activityHeaderRow, "Schedule A")),
      workbook.usedRange.row + k>>
rosterCellOf(k) ==
    <<"Roster",
      columnName(1 + findIndex(workbook.rosterHeaderRow, "Roster")),
      workbook.headerRow + k>>

cellsWith(op) == {mutations[i].at : i \in {k \in 1..Len(mutations) : mutations[k].op = op}}

C21_ExactlyTheCellsRead ==
    Done =>
        /\ cellsWith("fill") =
               {activityCellOf(scheduleANames[b].rowIndex) :
                   b \in {k \in BIdx : ~scheduleANames[k].matched}}
        /\ cellsWith("font") =
               {rosterCellOf(eligibleRosterNames[a].rowIndex) :
                   a \in {k \in AIdx : eligibleRosterNames[k].matched}}

(***************************************************************************)
(* C22: levenshteinDistanceWithLimit(s1, s2, maxDistance) returns the      *)
(* Levenshtein distance of s1 and s2 whenever that distance is at most     *)
(* maxDistance, and a value above maxDistance whenever it is more; a row   *)
(* is given up (result maxDistance + 1) only for pairs whose distance is   *)
(* above maxDistance.                                                      *)
(***************************************************************************)
givenUpAt(str1, str2, limit) ==
    abortRowFrom([j \in 1..(Len(str2) + 1) |-> j - 1], str1, str2, limit, 1)

limitRespected(out, str1, str2, limit) ==
    LET d == editDistance(str1, str2)
    IN  /\ d <= limit => out = d
        /\ d > limit => out > limit
        /\ givenUpAt(str1, str2, limit) # 0 => (d > limit /\ out = limit + 1)

C22_BoundedDistanceExact ==
    /\ fpc \in {"lev1", "lev2"} => limitRespected(out1, arg1, arg2, arg3)
    /\ fpc = "lev2" => limitRespected(out2, arg2, arg1, arg3)

\* a pair at distance exactly maxDistance > 0 was measured, and it was not
\* given up
C22_Witness ==
    /\ fpc = "lev2"
    /\ arg3 > 0
    /\ editDistance(arg1, arg2) = arg3
    /\ out1 = arg3
    /\ givenUpAt(arg1, arg2, arg3) = 0

(***************************************************************************)
(* C23: the length filter only prunes.  Whenever the lengths differ by     *)
(* more than maxLen * (1 - threshold), the Levenshtein distance of the two *)
(* strings is above maxDistance = floor(maxLen * (1 - threshold)); so the  *)
(* scorer with the length filter taken out returns the same score for      *)
(* every pair.                                                             *)
(***************************************************************************)
\* calculateOptimizedSimilarity with the length filter taken out
scoreWithoutLengthFilter(str1, str2, tauPct) ==
    LET maxLength == Max(Len(str1), Len(str2))
        limit == (maxLength * (100 - tauPct)) \div 100
    IN  IF maxLength = 0 THEN One
        ELSE IF charAt0(str1) # charAt0(str2) THEN Zero
        ELSE IF jaccardBelow(jaccardSimilarity(str1, str2)) THEN Zero
        ELSE scoreOf(levenshteinDistanceWithLimit(str1, str2, limit),
                     limit, maxLength)

lengthFilterSound(out, str1, str2, tauPct) ==
    LET maxLength == Max(Len(str1), Len(str2))
        limit == (maxLength * (100 - tauPct)) \div 100
    IN  /\ returnTaken(str1, str2, tauPct) = "length" =>
               /\ editDistance(str1, str2) > limit
               /\ out = Zero
        /\ out = scoreWithoutLengthFilter(str1, str2, tauPct)

C23_LengthFilterSound ==
    /\ fpc \in {"scored1", "scored2"} =>
           lengthFilterSound(out1, arg1, arg2, threshold)
    /\ fpc = "scored2" => lengthFilterSound(out2, arg2, arg1, threshold)

\* a pair the length filter rejects that the later filters would let through
\* to the edit distance
C23_Witness ==
    /\ fpc = "scored2"
    /\ returnTaken(arg1, arg2, threshold) = "length"
    /\ returnTakenNoLength(arg1, arg2, threshold) = "distance"

(***************************************************************************)
(* C24: the Jaccard pre-filter loses matches.  There are non-empty pairs   *)
(* that pass the length filter and the first-character filter and are one  *)
(* edit apart with maxDistance at least 1, so that their edit-based score  *)
(* (maxLen - 1) / maxLen is above 0.85, whose character sets have a        *)
(* Jaccard ratio below 0.6; for every such pair the scorer returns 0.      *)
(***************************************************************************)
lossyPair(str1, str2) ==
    LET maxLength == Max(Len(str1), Len(str2))
        ratio == jaccardSimilarity(str1, str2)
    IN  /\ str1 # <<>> /\ str2 # <<>>
        /\ ~(Abs(Len(str1) - Len(str2)) * 100 > maxLength * (100 - TauPct))
        /\ str1[1] = str2[1]
        /\ oneSubstitution(str1, str2)
        /\ (maxLength * (100 - TauPct)) \div 100 >= 1
        /\ AboveTau(<<maxLength - 1, maxLength>>, TauPct)
        /\ ratio[1] * 10 < 6 * ratio[2]

C24_JaccardLoses ==
    (fpc = "scored2" /\ lossyPair(arg1, arg2)) =>
        /\ out1 = Zero
        /\ out2 = Zero
        /\ returnTaken(arg1, arg2, TauPct) = "jaccard"
        /\ levenshteinDistanceWithLimit(arg1, arg2,
               (Max(Len(arg1), Len(arg2)) * (100 - TauPct)) \div 100) = 1

\* such a pair has been scored
C24_Witness == fpc = "scored2" /\ lossyPair(arg1, arg2) /\ out1 = Zero

(***************************************************************************)
(* C25: the run is two phases in sequence, neither repeated.  The exact    *)
(* pass looks every activity entry up once, in input order, and the fuzzy  *)
(* pass scores nothing before the exact pass has ended.  The entries left  *)
(* unmatched are then scored once each, in input order, in consecutive     *)
(* batches that cover the residue without gap or overlap; a batch begins   *)
(* only when every entry of the batches before it has been scored.         *)
(***************************************************************************)
exactEntries == {i \in LogIdx : matchLog[i].kind = "Exact"}
residue == unmatchedActivityNames

exactPassInOrder ==
    /\ pc \in {"roster", "activity", "exact"} =>
           /\ scored = <<>> /\ fuzzyMatches = 0 /\ batch = <<>>
           /\ exactEntries = LogIdx
    /\ pc \in {"roster", "activity"} => matchLog = <<>>
    /\ \A i \in exactEntries : \A j \in LogIdx :
           i < j => (matchLog[j].kind = "Fuzzy" \/ matchLog[i].b < matchLog[j].b)
    /\ \A i \in LogIdx : \A j \in LogIdx :
           (i # j) => matchLog[i].b # matchLog[j].b
    /\ pc = "exact" =>
           \A b \in BIdx :
               /\ b >= row => ~scheduleANames[b].matched
               /\ b < row => (scheduleANames[b].matched
                                <=> nameB(b) \in DOMAIN exactMatchMap)

fuzzyPassInBatches ==
    /\ ExactOver =>
           /\ \A i \in 1..Len(residue) : \A j \in 1..Len(residue) :
                  i < j => residue[i] < residue[j]
           /\ Range(residue) =
                  {b \in BIdx : \A i \in exactEntries : matchLog[i].b # b}
           /\ Len(scored) <= Len(residue)
           /\ \A i \in ScoredIdx : scored[i].b = residue[i]
           /\ batchStart % BATCH_SIZE = 0
    /\ pc = "batches" => Len(scored) = Min(batchStart, Len(residue))
    /\ pc = "fuzzy" =>
           /\ batchStart < Len(residue)
           /\ batch = SubSeq(residue, batchStart + 1,
                             Min(batchStart + BATCH_SIZE, Len(residue)))
           /\ Len(scored) = batchStart + row - 1
    /\ Done => Len(scored) = Len(residue)

phasesInSequence ==
    /\ pc \in {"batches", "fuzzy", "done"} =>
           /\ pc' \in {"batches", "fuzzy", "done"}
           /\ exactMatches' = exactMatches
           /\ residue' = residue
    /\ (pc # "fuzzy" /\ pc' = "fuzzy") =>
           /\ pc = "batches"
           /\ Len(scored) = batchStart
    /\ pc = "exact" => (pc' = "exact" /\ row' = row + 1) \/ pc' = "batches"
    /\ pc = "done" => pc' = "done"

C25_TwoPhasesInOrder ==
    /\ [](exactPassInOrder /\ fuzzyPassInBatches)
    /\ [][phasesInSequence]_vars

\* the second batch of a run is about to begin with its first entry
C25_Witness ==
    /\ pc = "fuzzy"
    /\ batchStart > 0
    /\ row = 1
    /\ Len(scored) = batchStart

(***************************************************************************)
(* C26: the run terminates whatever the two sheets hold: both passes and   *)
(* every bounded edit-distance computation complete, and at the end every  *)
(* activity entry has its outcome: an exact match, a fuzzy match, or none. *)
(* An entry with no match is an ordinary end of the run.                   *)
(* Stated as the three facts that give termination under the scheduling of *)
(* SpecLive: every step of main lowers the natural number stepsLeft, which *)
(* is 0 only at the end; before the end a step is always possible; and at  *)
(* the end every entry has exactly one of the three outcomes.              *)
(***************************************************************************)
outcomeOf(b) ==
    IF peersOfB(b) = {} THEN "None"
    ELSE matchLog[CHOOSE i \in peersOfB(b) : TRUE].kind

everyOutcomeReached ==
    \A b \in BIdx :
        /\ Cardinality(peersOfB(b)) <= 1
        /\ scheduleANames[b].matched <=> outcomeOf(b) \in {"Exact", "Fuzzy"}
        /\ outcomeOf(b) \in {"Fuzzy", "None"} =>
               \E i \in ScoredIdx : scored[i].b = b

\* an upper bound of the number of steps main still has to take
fuzzyStepsLeft(from) ==
    3 * Max(Len(unmatchedActivityNames) - from, 0) + 1

stepsLeft ==
    LET La == Len(activityValues)
    IN  CASE pc = "roster" ->
                 (Len(rosterValues) + 1 - row) + 1 + (5 * La + 3)
          [] pc = "activity" -> (La + 1 - row) + 1 + (4 * La + 2)
          [] pc = "exact" ->
                 (Len(scheduleANames) + 1 - row) + 1 + (3 * La + 1)
          [] pc = "batches" -> fuzzyStepsLeft(batchStart)
          [] pc = "fuzzy" ->
                 (Len(batch) + 1 - row) + 1
                 + fuzzyStepsLeft(batchStart + BATCH_SIZE)
          [] OTHER -> 0

\* a statement of main is left to execute: the three loop bodies are total,
\* so each can be executed whenever its loop condition holds
stepPossible ==
    \/ pc = "roster" /\ row <= Len(rosterValues)
    \/ pc = "activity" /\ row <= Len(activityValues)
    \/ pc = "fuzzy" /\ row <= Len(batch)
    \/ ENABLED (RosterDone \/ ActivityDone \/ ExactEntry \/ FilterUnmatched
                \/ BatchBegin \/ BatchEnd \/ Report)

RECURSIVE lettersBeforeParen(_)
lettersBeforeParen(raw) ==
    IF raw = <<>> \/ Head(raw) = "(" THEN <<>>
    ELSE (IF toLowerCase(Head(raw)) \in LowerLetters
          THEN <<toLowerCase(Head(raw))>> ELSE <<>>)
         \o lettersBeforeParen(Tail(raw))

\* the text cleanName would return if it removed no separator
cutOnly(raw) == trim(trim(beforeParen(raw)))

C27_LettersBeforeParenthesis ==
    /\ fpc = "normed1" =>
           /\ Chars(out1) \subseteq LowerLetters
           /\ out1 = lettersBeforeParen(arg1)
           /\ out1 = normalizeActivityName(cutOnly(arg1))
    /\ fpc = "normedR1" =>
           /\ Chars(out1) \subseteq LowerLetters
           /\ out1 = lettersBeforeParen(arg1) \o lettersBeforeParen(arg2)
           /\ out1 = normalizeName(cutOnly(arg1), cutOnly(arg2))

\* an ActivityReport cell from which a separator was removed, which holds a
\* letter after its first "(", and whose normalized name is not empty
C27_Witness ==
    /\ fpc = "normed1"
    /\ out1 # <<>>
    /\ cleanName(arg1) # cutOnly(arg1)
    /\ \E i \in 1..Len(arg1) : \E j \in (i + 1)..Len(arg1) :
           /\ arg1[i] = "("
           /\ toLowerCase(arg1[j]) \in LowerLetters

(***************************************************************************)
(* C28: however main is left (at its end, by one of the early returns for  *)
(* a missing sheet, a missing header row, a missing column or an empty     *)
(* ActivityReport, or by an exception inside the try block), the           *)
(* calculation mode of the workbook is the one it had when main was        *)
(* entered, and setting it back is the last mutation main performs.        *)
(***************************************************************************)
Exited == pc \in {"done", "returned", "thrown"}

modeRestoredLast ==
    Exited =>
        /\ calculationMode = originalCalculationMode
        /\ mutations # <<>>
        /\ mutations[Len(mutations)] = setCalculationMode(originalCalculationMode)

\* originalCalculationMode is the mode at entry and is never assigned again;
\* once main is left nothing happens any more
entryModeKept ==
    /\ pc = "entry" => originalCalculationMode' = calculationMode
    /\ pc # "entry" => originalCalculationMode' = originalCalculationMode
    /\ ~Exited

C28_CalculationModeRestored == []modeRestoredLast /\ [][entryModeKept]_vars

\* main entered in a mode other than automatic and left by an exception in
\* the middle of the formatting
C28_Witness ==
    /\ pc = "thrown"
    /\ originalCalculationMode = "automaticExceptTables"
    /\ \E i \in 1..Len(mutations) : mutations[i].op \in {"fill", "font"}
    /\ modeRestoredLast

(***************************************************************************)
(* C29: determineErrorTypes applies its rules in a fixed precedence: a     *)
(* shift of type "rebook" yields exactly [REBOOK_SHIFT]; otherwise a       *)
(* "cancelled" status yields exactly [CANCELLED_SHIFT]; otherwise a        *)
(* "pending" status yields exactly [PENDING_SHIFT]; otherwise the result   *)
(* holds at most one of MISSED_CLOCK_IN, MISSED_CLOCK_OUT and MISSED_BOTH, *)
(* chosen by which clock values are missing, and holds                     *)
(* WORKED_TIME_UNDER_10 only when booked and worked time are both positive *)
(* and worked/booked is below 10%.                                         *)
(***************************************************************************)
typeIs(cell, word) == trim(lower(cell)) = word

missedOf(errors) ==
    {i \in 1..Len(errors) :
        errors[i] \in {MISSED_CLOCK_IN, MISSED_CLOCK_OUT, MISSED_BOTH}}

clockRuleHolds(shiftRow, errors) ==
    LET inMissing == ~hasValidTimeValue(shiftRow.clockinDateTime)
        outMissing == ~hasValidTimeValue(shiftRow.clockoutDateTime)
    IN  /\ Cardinality(missedOf(errors)) <= 1
        /\ MISSED_BOTH \in Range(errors) <=> inMissing /\ outMissing
        /\ MISSED_CLOCK_IN \in Range(errors) <=> inMissing /\ ~outMissing
        /\ MISSED_CLOCK_OUT \in Range(errors) <=> ~inMissing /\ outMissing

C29_ClassifierPrecedence ==
    fpc = "classified" =>
        IF typeIs(arg1.shiftType, <<"r", "e", "b", "o", "o", "k">>)
        THEN out1 = <<REBOOK_SHIFT>>
        ELSE IF typeIs(arg1.status, <<"c", "a", "n", "c", "e", "l", "l", "e", "d">>)
        THEN out1 = <<CANCELLED_SHIFT>>
        ELSE IF typeIs(arg1.status, <<"p", "e", "n", "d", "i", "n", "g">>)
        THEN out1 = <<PENDING_SHIFT>>
        ELSE /\ Range(out1) \subseteq {MISSED_CLOCK_IN, MISSED_CLOCK_OUT,
                                       MISSED_BOTH, WORKED_TIME_UNDER_10}
             /\ clockRuleHolds(arg1, out1)
             /\ Cardinality({i \in 1..Len(out1) :
                                out1[i] = WORKED_TIME_UNDER_10}) <= 1
             /\ WORKED_TIME_UNDER_10 \in Range(out1) =>
                    arg2 > 0 /\ arg3 > 0 /\ arg3 * 100 < 10 * arg2

\* a rebook shift whose status is cancelled as well: the type decides
C29_Witness ==
    /\ fpc = "classified"
    /\ typeIs(arg1.shiftType, <<"r", "e", "b", "o", "o", "k">>)
    /\ typeIs(arg1.status, <<"c", "a", "n", "c", "e", "l", "l", "e", "d">>)
    /\ arg1.shiftType # <<"r", "e", "b", "o", "o", "k">>
    /\ out1 = <<REBOOK_SHIFT>>

(***************************************************************************)
(* C30: exact matching takes precedence over fuzzy matching.  Every        *)
(* activity entry whose (non-empty) normalized name is the normalized name *)
(* of some admitted roster entry is matched in the exact pass; so, after a *)
(* run, the two names of every fuzzy pair differ and its score is below 1, *)
(* and no unmatched activity entry shares its name with a roster entry.    *)
(***************************************************************************)
sharesName(b) == \E a \in AIdx : nameA(a) = nameB(b)

exactTakesShared ==
    ExactOver =>
        \A b \in BIdx :
            sharesName(b) =>
                /\ nameB(b) # <<>>
                /\ \E i \in peersOfB(b) : matchLog[i].kind = "Exact"

fuzzyPairsDiffer ==
    \A i \in LogIdx :
        matchLog[i].kind = "Fuzzy" =>
            /\ nameA(matchLog[i].a) # nameB(matchLog[i].b)
            /\ Less(matchLog[i].score, One)
            /\ ~sharesName(matchLog[i].b)

C30_ExactBeforeFuzzy ==
    /\ exactTakesShared
    /\ fuzzyPairsDiffer
    /\ Done => \A b \in unmatchedB : ~sharesName(b)

\* a finished run in which one activity entry was matched in the exact pass
\* and another, of a name no roster entry has, in the fuzzy pass
C30_Witness ==
    /\ Done
    /\ \E i, j \in LogIdx :
           /\ matchLog[i].kind = "Exact"
           /\ sharesName(matchLog[i].b)
           /\ matchLog[j].kind = "Fuzzy"
           /\ ~sharesName(matchLog[j].b)

====
